---- MODULE Spec2Model ----
(***************************************************************************)
(* A model of the DHT node of src/src/lib.rs: the value store with its two *)
(* update rules, the peer scorer and the routing table.                    *)
(***************************************************************************)
EXTENDS Integers, Sequences, FiniteSets, TLC

VARIABLES
    storage,      \* DhtNode.storage: DHT key hash -> stored DhtValue
    now,          \* Version::get(): the clock, in seconds
    req,          \* the last finished operation: its input, the state it found, its reply
    buckets,      \* DhtNode.buckets: affinity -> (key id -> Node)
    known_peers,  \* DhtNode.known_peers: the AddressCache of peer ids
    bad_peers,    \* DhtNode.bad_peers: key id -> failure score
    hist,         \* per peer, the outcomes reported so far (observation only)
    tasks,        \* concurrent STORE handlers, each inside its insert_with loop
    reporters,    \* concurrent set_query_result calls, each between its atomic steps
    call          \* the client call in progress (find_address, store_ip_address, ..)

vars == <<storage, now, req, buckets, known_peers, bad_peers, hist, tasks, reporters, call>>

----------------------------------------------------------------------------
(* Bounds of the model *)

MaxNow == 2        \* the clock runs 0..MaxNow
MaxTtl == 2        \* ttl of an inbound value: 1..MaxTtl
MaxRoster == 2     \* longest overlay roster in a STORE
NTasks == 2        \* STORE handlers running at the same time
NReporters == 2    \* set_query_result calls running at the same time

(* Program constants *)

MAX_FAIL_COUNT == 5
MAX_PEERS == 65536
MAX_TASKS == 5
TIMEOUT_VALUE == 3600

----------------------------------------------------------------------------
(* Values *)

Min(S) == CHOOSE x \in S : \A y \in S : x <= y
Max(S) == CHOOSE x \in S : \A y \in S : x >= y

\* A public key; id is the key id (the hash of the key).
Ed1 == [kind |-> "Ed25519", id |-> 1]
Ov2 == [kind |-> "Overlay", id |-> 2]
PublicKeys == {Ed1, Ov2}

dht_key_from_key_id(id, name) == [id |-> id, idx |-> 0, name |-> name]

AddressKey == dht_key_from_key_id(1, "address")
NodesKey == dht_key_from_key_id(2, "nodes")
DhtKeys == {AddressKey, NodesKey}

\* hash() of a DHT key: collision free, the key id is the tuple of the key's fields.
hash(key) == <<key.id, key.idx, key.name>>

DhtKeyIds == {hash(k) : k \in DhtKeys}

\* A signature field: empty, or one that verifies under the value's key, or one that
\* does not.
Signatures == {"empty", "good", "bad"}

UpdateRules == {"Signature", "OverlayNodes", "Anybody"}

\* An overlay node record; its signature verifies (OverlayUtils::verify_node) or not.
OverlayNodeIds == {1, 2}
OverlayNodeVersions == {1, 2}
OverlayNodeRecords ==
    [id : OverlayNodeIds, version : OverlayNodeVersions, signature : {"good", "bad"}]

SeqsUpTo(S, n) == UNION {[1..m -> S] : m \in 0..n}

\* serialize_boxed of an address list / of an overlay nodes list
AddressList(a) == [type |-> "AddressList", addr |-> a, nodes |-> <<>>]
OverlayNodes(ns) == [type |-> "OverlayNodes", addr |-> "", nodes |-> ns]

Addresses == {"a1", "a2"}
OwnAddress == "a1"

NoValue == [rule |-> "NoValue"]

DhtValue(rule, id, key, ksig, sig, ttl, value) ==
    [rule |-> rule, id |-> id, key |-> key, ksig |-> ksig, sig |-> sig,
     ttl |-> ttl, value |-> value]

----------------------------------------------------------------------------
(* Value store *)

\* KeyOption::verify: only an Ed25519 key verifies, and only a good signature.
verify(signature, key) == key.kind = "Ed25519" /\ signature = "good"

\* Variant: the key description's signature is not checked
verify_value_only(value) == verify(value.sig, value.id)

verify_value(value) == verify(value.sig, value.id) /\ verify(value.ksig, value.id)

verify_node(node) == node.signature = "good"

\* deserialize_overlay_nodes: an error unless the bytes are an overlay nodes list
deserialize_overlay_nodes(value) ==
    IF value.type = "OverlayNodes"
    THEN [err |-> FALSE, nodes |-> value.nodes]
    ELSE [err |-> TRUE, nodes |-> <<>>]

\* What the update closure of add_counted_object_to_map_with_update answers.
UpdErr == [kind |-> "Err"]
UpdNone == [kind |-> "None"]
UpdSome(v) == [kind |-> "Some", val |-> v]

\* The reply of a store operation: Err(..) or Ok(changed), and the store afterwards.
StoreErr(st) == [err |-> TRUE, changed |-> FALSE, storage |-> st]
StoreOk(changed, st) == [err |-> FALSE, changed |-> changed, storage |-> st]

\* add_counted_object_to_map_with_update, run alone: the closure sees the entry
\* and the map takes its answer in one atomic step.
add_counted_object_to_map_with_update(st, key, upd) ==
    IF upd.kind = "Err" THEN StoreErr(st)
    ELSE IF upd.kind = "None" THEN StoreOk(FALSE, st)
    ELSE StoreOk(TRUE, [st EXCEPT ![key] = upd.val])

\* Variant: an entry of equal ttl is replaced too
signed_value_update_equal_ttl(old_value, value) ==
    IF old_value # NoValue /\ old_value.ttl > value.ttl
    THEN UpdNone
    ELSE UpdSome(value)

\* Variant: the stored entry is not looked at
signed_value_update_always(old_value, value) == UpdSome(value)

\* Variant: an entry, once stored, is never replaced
signed_value_update_keep_old(old_value, value) ==
    IF old_value # NoValue THEN UpdNone ELSE UpdSome(value)

\* The closure of process_store_signed_value
signed_value_update(old_value, value) ==
    IF old_value # NoValue /\ old_value.ttl >= value.ttl
    THEN UpdNone
    ELSE UpdSome(value)

process_store_signed_value(dht_key_id, value, st) ==
    IF ~verify_value(value) THEN StoreErr(st)
    ELSE add_counted_object_to_map_with_update(
             st, dht_key_id, signed_value_update(st[dht_key_id], value))

\* Variant: every node is taken, verified or not
RECURSIVE unverified_nodes(_)
unverified_nodes(nodes_list) ==
    IF nodes_list = <<>> THEN <<>>
    ELSE <<nodes_list[Len(nodes_list)]>>
         \o unverified_nodes(SubSeq(nodes_list, 1, Len(nodes_list) - 1))

\* while let Some(node) = nodes_list.pop(): the verified nodes, last first
RECURSIVE verified_nodes(_)
verified_nodes(nodes_list) ==
    IF nodes_list = <<>> THEN <<>>
    ELSE LET node == nodes_list[Len(nodes_list)]
             rest == verified_nodes(SubSeq(nodes_list, 1, Len(nodes_list) - 1))
         IN IF verify_node(node) THEN <<node>> \o rest ELSE rest

\* for node in nodes.iter() { ... } of the overlay closure, from the i-th node on
RECURSIVE merge_nodes(_, _, _)
merge_nodes(nodes, old_nodes, i) ==
    IF i > Len(nodes) THEN [abort |-> FALSE, nodes |-> old_nodes]
    ELSE LET node == nodes[i]
             found == {j \in 1..Len(old_nodes) : old_nodes[j].id = node.id}
         IN IF found = {}
            THEN merge_nodes(nodes, Append(old_nodes, node), i + 1)
            ELSE IF node.version > old_nodes[Min(found)].version
            THEN merge_nodes(nodes, [old_nodes EXCEPT ![Min(found)] = node], i + 1)
            ELSE [abort |-> TRUE, nodes |-> old_nodes]

\* Variant: the stored ttl is compared with the clock only
overlay_nodes_update_any_ttl(old_value, value, nodes, t) ==
    LET old == IF old_value # NoValue /\ old_value.ttl >= t
               THEN deserialize_overlay_nodes(old_value.value)
               ELSE [err |-> FALSE, nodes |-> <<>>]
    IN IF old.err THEN UpdErr
       ELSE LET merged == merge_nodes(nodes, old.nodes, 1)
            IN IF merged.abort THEN UpdNone
               ELSE UpdSome([value EXCEPT !.value = OverlayNodes(merged.nodes)])

\* The closure of process_store_overlay_nodes
overlay_nodes_update(old_value, value, nodes, t) ==
    IF old_value # NoValue /\ old_value.ttl >= t /\ old_value.ttl > value.ttl
    THEN UpdNone
    ELSE LET old == IF old_value # NoValue /\ old_value.ttl >= t
                    THEN deserialize_overlay_nodes(old_value.value)
                    ELSE [err |-> FALSE, nodes |-> <<>>]
         IN IF old.err THEN UpdErr
            ELSE LET merged == merge_nodes(nodes, old.nodes, 1)
                 IN IF merged.abort THEN UpdNone
                    ELSE UpdSome([value EXCEPT !.value = OverlayNodes(merged.nodes)])

\* The checks of process_store_overlay_nodes that come before the map update
overlay_nodes_checked(value) ==
    /\ value.sig = "empty"
    /\ value.ksig = "empty"
    /\ value.id.kind = "Overlay"
    /\ dht_key_from_key_id(value.id.id, "nodes") = value.key
    /\ ~deserialize_overlay_nodes(value.value).err
    /\ verified_nodes(deserialize_overlay_nodes(value.value).nodes) # <<>>

process_store_overlay_nodes(dht_key_id, value, st, t) ==
    IF ~overlay_nodes_checked(value) THEN StoreErr(st)
    ELSE add_counted_object_to_map_with_update(
             st, dht_key_id,
             overlay_nodes_update(st[dht_key_id], value,
                 verified_nodes(deserialize_overlay_nodes(value.value).nodes), t))

process_store(value, st, t) ==
    IF value.ttl <= t THEN StoreErr(st)
    ELSE IF value.rule = "Signature"
    THEN process_store_signed_value(hash(value.key), value, st)
    ELSE IF value.rule = "OverlayNodes"
    THEN process_store_overlay_nodes(hash(value.key), value, st, t)
    ELSE StoreErr(st)

\* Variant: an entry whose ttl is the current second is still served
search_dht_key_inclusive(st, key, t) ==
    IF key \in DOMAIN st /\ st[key] # NoValue /\ st[key].ttl >= t THEN st[key] ELSE NoValue

search_dht_key(st, key, t) ==
    IF key \in DOMAIN st /\ st[key] # NoValue /\ st[key].ttl > t THEN st[key] ELSE NoValue

\* sign_value("address", ..) of store_ip_address, for the local key Ed1
sign_value(name, value, key, t) ==
    DhtValue("Signature", key, dht_key_from_key_id(key.id, name), "good", "good",
             t + TIMEOUT_VALUE, value)

\* The DhtValue that store_overlay_node builds for one node of overlay Ov2
overlay_node_value(node, t) ==
    DhtValue("OverlayNodes", Ov2, dht_key_from_key_id(Ov2.id, "nodes"), "empty", "empty",
             t + TIMEOUT_VALUE, OverlayNodes(<<node>>))

----------------------------------------------------------------------------
(* Key ids and affinity *)

\* The nibble table DhtNode::BITS, indexed from 0
BITS == <<4, 3, 2, 2, 1, 1, 1, 1, 0, 0, 0, 0, 0, 0, 0, 0>>

KeyIdLen == 32

LocalId == 0
PeerIds == {1, 2, 3}

\* The one non-zero byte of a key id of the model: <<position, byte>>.
\* Id 1 differs from the local id in bit 0, id 2 in bit 7, id 3 in bit 11, id 4 in
\* bits 0 and 7, id 5 in bit 21, id 6 in bit 25, id 7 in bits 24 and 25, id 8 in bits
\* 25 and 27, id 9 in bit 39, id 10 in bit 38.
IdByte == <<(<<1, 128>>), (<<1, 1>>), (<<2, 16>>), (<<1, 129>>), (<<3, 4>>), (<<4, 64>>),
           (<<4, 192>>), (<<4, 80>>), (<<5, 1>>), (<<5, 2>>)>>

\* KeyId::data(): the 32 bytes of a key id
data(id) ==
    [i \in 1..KeyIdLen |-> IF id # LocalId /\ IdByte[id][1] = i THEN IdByte[id][2] ELSE 0]

RECURSIVE xor_bits(_, _, _)
xor_bits(a, b, n) ==
    IF n = 0 THEN 0
    ELSE 2 * xor_bits(a \div 2, b \div 2, n - 1) + (IF a % 2 = b % 2 THEN 0 ELSE 1)

xor8(a, b) == xor_bits(a, b, 8)

\* Variant of the loop of get_affinity that leaves out the + 4 of the low nibble
RECURSIVE affinity_from_high_nibble_only(_, _, _, _)
affinity_from_high_nibble_only(key1, key2, i, ret) ==
    IF i > KeyIdLen THEN ret
    ELSE LET x == xor8(key1[i], key2[i])
         IN IF x = 0 THEN affinity_from_high_nibble_only(key1, key2, i + 1, (ret + 8) % 256)
            ELSE IF x \div 16 = 0
            THEN (ret + BITS[(x % 16) + 1]) % 256
            ELSE (ret + BITS[(x \div 16) + 1]) % 256

\* The loop of get_affinity from byte i on, ret being a u8
RECURSIVE affinity_from(_, _, _, _)
affinity_from(key1, key2, i, ret) ==
    IF i > KeyIdLen THEN ret
    ELSE LET x == xor8(key1[i], key2[i])
         IN IF x = 0 THEN affinity_from(key1, key2, i + 1, (ret + 8) % 256)
            ELSE IF x \div 16 = 0
            THEN (ret + BITS[(x % 16) + 1] + 4) % 256
            ELSE (ret + BITS[(x \div 16) + 1]) % 256

get_affinity(key1, key2) == affinity_from(key1, key2, 1, 0)

----------------------------------------------------------------------------
(* Peer scorer *)

Score(bp, peer) == IF peer \in DOMAIN bp THEN bp[peer] ELSE 0

\* Variant: a score is lowered whenever it is above 0
set_good_peer_below_cap(bp, peer) ==
    IF peer \in DOMAIN bp /\ bp[peer] > 0
    THEN [bp EXCEPT ![peer] = bp[peer] - 1]
    ELSE bp

\* set_good_peer, run alone
set_good_peer(bp, peer) ==
    IF peer \in DOMAIN bp /\ bp[peer] >= MAX_FAIL_COUNT
    THEN [bp EXCEPT ![peer] = bp[peer] - 1]
    ELSE bp

\* Variant: the failure count is raised whatever it is
bad_count_always_raised(cnt) == TRUE

\* if cnt <= Self::MAX_FAIL_COUNT { fetch_add(2) }
bad_count_raised(cnt) == cnt <= MAX_FAIL_COUNT

\* The failure branch of set_query_result, run alone: the entry is created with 0
\* when absent, then fetch_add(2) on the AtomicU8 when the count read is <= the cap
set_bad_peer(bp, peer) ==
    LET cnt == Score(bp, peer)
        with == IF peer \in DOMAIN bp THEN bp ELSE bp @@ (peer :> 0)
    IN IF bad_count_raised(cnt)
       THEN [with EXCEPT ![peer] = (cnt + 2) % 256]
       ELSE with

set_query_result(bp, answered, peer) ==
    IF answered THEN set_good_peer(bp, peer) ELSE set_bad_peer(bp, peer)

----------------------------------------------------------------------------
(* Known peers: the AddressCache of the link layer library *)

MaxPeers == 2      \* stands for MAX_PEERS, the limit of the cache

\* AddressCache::with_limit
with_limit(limit) == [index |-> <<>>, upper |-> 0, limit |-> limit]

EmptyCache == with_limit(MaxPeers)

CacheIds(kp) == {kp.index[i] : i \in 1..Len(kp.index)}

\* AddressCache::count
count(kp) == Len(kp.index)

\* AddressCache::put: FALSE when the id is already in the cache; otherwise the id takes
\* the next slot, the oldest entry leaving once the cache is full
put(kp, id) ==
    IF id \in CacheIds(kp) THEN [added |-> FALSE, cache |-> kp]
    ELSE IF Len(kp.index) < kp.limit
    THEN [added |-> TRUE,
          cache |-> [kp EXCEPT !.index = Append(kp.index, id),
                               !.upper = (kp.upper + 1) % kp.limit]]
    ELSE [added |-> TRUE,
          cache |-> [kp EXCEPT !.index = [kp.index EXCEPT ![kp.upper + 1] = id],
                               !.upper = (kp.upper + 1) % kp.limit]]

NoPeer == 0
NoIter == -1

find_by_index(kp, i) == IF i + 1 \in 1..Len(kp.index) THEN kp.index[i + 1] ELSE NoPeer

\* AddressCache::first / next / given; an iterator is the index it stands on
first(kp) == [iter |-> 0, peer |-> find_by_index(kp, 0)]
next(kp, iter) ==
    IF iter + 1 < count(kp)
    THEN [iter |-> iter + 1, peer |-> find_by_index(kp, iter + 1)]
    ELSE [iter |-> iter + 1, peer |-> NoPeer]
given(kp, iter) == find_by_index(kp, iter)

\* Variant: a peer is skipped only above the cap
RECURSIVE get_known_peer_above_cap(_, _, _)
get_known_peer_above_cap(kp, bp, iter) ==
    LET ret == IF iter # NoIter THEN next(kp, iter) ELSE first(kp)
    IN IF ret.peer # NoPeer /\ ret.peer \in DOMAIN bp /\ bp[ret.peer] > MAX_FAIL_COUNT
       THEN get_known_peer_above_cap(kp, bp, ret.iter)
       ELSE ret

\* get_known_peer: the next peer of the cache whose score is below the cap
RECURSIVE get_known_peer(_, _, _)
get_known_peer(kp, bp, iter) ==
    LET ret == IF iter # NoIter THEN next(kp, iter) ELSE first(kp)
    IN IF ret.peer # NoPeer /\ ret.peer \in DOMAIN bp /\ bp[ret.peer] >= MAX_FAIL_COUNT
       THEN get_known_peer(kp, bp, ret.iter)
       ELSE ret

\* Every peer a walk with get_known_peer yields, from iterator iter to the end
RECURSIVE known_peers_from(_, _, _)
known_peers_from(kp, bp, iter) ==
    LET ret == get_known_peer(kp, bp, iter)
    IN IF ret.peer = NoPeer THEN {}
       ELSE {ret.peer} \cup known_peers_from(kp, bp, ret.iter)

----------------------------------------------------------------------------
(* Routing table *)

NoNode == [version |-> -1]

NodeVersions == {1, 2}
NodeAddrLists == {"a1", "none"}
Nodes == [id : PeerIds, addr_list : NodeAddrLists, version : NodeVersions,
          signature : {"good", "bad"}]

verify_other_node(node) == node.signature = "good"

\* AdnlNode::parse_address_list: the IP address, or nothing for a list without one
parse_address_list(addr_list) == IF addr_list = "none" THEN NoPeer ELSE 1

BucketNode(bk, affinity, id) ==
    IF affinity \in DOMAIN bk /\ id \in DOMAIN bk[affinity] THEN bk[affinity][id] ELSE NoNode

\* The closure add_peer hands to add_counted_object_to_map_with_update
node_update(old_node, peer) ==
    IF old_node # NoNode /\ old_node.version >= peer.version
    THEN UpdNone
    ELSE UpdSome(peer)

\* The bucket part of add_peer: the bucket is created when missing, then updated
bucket_update(bk, affinity, id, peer) ==
    LET with == IF affinity \in DOMAIN bk THEN bk ELSE bk @@ (affinity :> <<>>)
        upd == node_update(BucketNode(bk, affinity, id), peer)
    IN IF upd.kind = "None" THEN with
       ELSE [with EXCEPT ![affinity] =
                IF id \in DOMAIN with[affinity]
                THEN [with[affinity] EXCEPT ![id] = upd.val]
                ELSE with[affinity] @@ (id :> upd.val)]

\* Variant: the two branches on the result of known_peers.put are swapped
add_peer_swapped(peer, bk, kp, bp) ==
    IF ~verify_other_node(peer) \/ parse_address_list(peer.addr_list) = NoPeer
    THEN [ret |-> NoPeer, buckets |-> bk, known_peers |-> kp, bad_peers |-> bp]
    ELSE LET ret == peer.id
             p == put(kp, ret)
         IN IF p.added
            THEN [ret |-> ret, buckets |-> bk, known_peers |-> p.cache,
                  bad_peers |-> set_good_peer(bp, ret)]
            ELSE [ret |-> ret,
                  buckets |-> bucket_update(bk, get_affinity(data(LocalId), data(ret)),
                                            ret, peer),
                  known_peers |-> kp, bad_peers |-> bp]

\* add_peer: the reply (the peer id, or NoPeer for Ok(None)) and the state afterwards
add_peer(peer, bk, kp, bp) ==
    IF ~verify_other_node(peer) \/ parse_address_list(peer.addr_list) = NoPeer
    THEN [ret |-> NoPeer, buckets |-> bk, known_peers |-> kp, bad_peers |-> bp]
    ELSE LET ret == peer.id
             p == put(kp, ret)
         IN IF p.added
            THEN [ret |-> ret,
                  buckets |-> bucket_update(bk, get_affinity(data(LocalId), data(ret)),
                                            ret, peer),
                  known_peers |-> p.cache, bad_peers |-> bp]
            ELSE [ret |-> ret, buckets |-> bk, known_peers |-> kp,
                  bad_peers |-> set_good_peer(bp, ret)]

\* The ids of a bucket in the order its iterator yields them (here: ascending)
RECURSIVE bucket_ids(_)
bucket_ids(ids) ==
    IF ids = {} THEN <<>> ELSE <<Min(ids)>> \o bucket_ids(ids \ {Min(ids)})

\* The records of buckets 0..255 in walking order
RECURSIVE all_nodes(_, _)
all_nodes(bk, affinities) ==
    IF affinities = {} THEN <<>>
    ELSE LET a == Min(affinities)
             ids == bucket_ids(DOMAIN bk[a])
         IN [i \in 1..Len(ids) |-> bk[a][ids[i]]] \o all_nodes(bk, affinities \ {a})

\* get_known_nodes: an error for limit 0, else the first limit records of the walk
get_known_nodes(bk, limit) ==
    LET all == all_nodes(bk, DOMAIN bk)
    IN IF limit = 0 THEN [err |-> TRUE, nodes |-> <<>>]
       ELSE [err |-> FALSE,
             nodes |-> IF Len(all) <= limit THEN all ELSE SubSeq(all, 1, limit)]

\* process_find_value: ValueFound(value), or ValueNotFound(nodes), or an error
process_find_value(st, bk, key, k, t) ==
    LET value == search_dht_key(st, key, t)
        known == get_known_nodes(bk, k)
    IN IF value # NoValue
       THEN [err |-> FALSE, found |-> value, nodes |-> <<>>]
       ELSE [err |-> known.err, found |-> NoValue, nodes |-> known.nodes]

\* parse_value_as_address: the address and the key of the key description, or an error
parse_value_as_address(value) ==
    IF value.value.type = "AddressList"
    THEN [err |-> FALSE, addr |-> value.value.addr, key |-> value.id]
    ELSE [err |-> TRUE, addr |-> "", key |-> value.id]

----------------------------------------------------------------------------
(* Inputs *)

StorePayloads == {AddressList(a) : a \in Addresses}
                 \cup {OverlayNodes(<<[id |-> 1, version |-> 1, signature |-> "good"]>>)}

\* The values an inbound STORE may carry, well formed or not
StoreValues ==
    [rule : UpdateRules, id : PublicKeys, key : DhtKeys, ksig : Signatures,
     sig : Signatures, ttl : 1..MaxTtl, value : StorePayloads]

Rosters == SeqsUpTo(OverlayNodeRecords, MaxRoster)

\* OverlayNodes values of overlay Ov2 with a well formed envelope and any roster
RosterValues ==
    {DhtValue("OverlayNodes", Ov2, NodesKey, "empty", "empty", ttl, OverlayNodes(ns)) :
        ttl \in 1..MaxTtl, ns \in Rosters}

FindValueK == {0, 1, 6}

----------------------------------------------------------------------------
(* The state after construction *)

\* No reply is waiting to be handed back to the link layer
Idle == [op |-> "Idle"]

Tasks == 1..NTasks
IdleTask ==
    [pc |-> "idle", value |-> NoValue, seen |-> NoValue, new |-> NoValue,
     err |-> FALSE, changed |-> FALSE, retried |-> FALSE]

\* No client call (find_address, store_ip_address, ..) is running
NoFlying == [p \in DOMAIN IdByte |-> 0]
NoCall == [op |-> "none", pc |-> "done", n |-> 0, flying |-> NoFlying]

Reporters == 1..NReporters
IdleReporter == [pc |-> "idle", peer |-> NoPeer, cnt |-> 0]

Init ==
    /\ storage = [k \in DhtKeyIds |-> NoValue]
    /\ now = 0
    /\ req = Idle
    /\ buckets = <<>>
    /\ known_peers = EmptyCache
    /\ bad_peers = <<>>
    /\ hist = [p \in PeerIds |-> <<>>]
    /\ tasks = [t \in Tasks |-> IdleTask]
    /\ reporters = [r \in Reporters |-> IdleReporter]
    /\ call = NoCall

----------------------------------------------------------------------------
(* Operations on the value store *)

\* Version::get() moves on
Tick ==
    /\ req = Idle
    /\ now < MaxNow
    /\ now' = now + 1
    /\ UNCHANGED <<storage, req, buckets, known_peers, bad_peers, hist, tasks, reporters, call>>

\* The reply of the last operation is handed back to its caller
Reply ==
    /\ req # Idle
    /\ req' = Idle
    /\ UNCHANGED <<storage, now, buckets, known_peers, bad_peers, hist, tasks, reporters, call>>

StoreWith(values) ==
    \E value \in values :
        LET r == process_store(value, storage, now)
        IN /\ req = Idle
           /\ storage' = r.storage
           /\ req' = [op |-> "Store", value |-> value, now |-> now, before |-> storage,
                      err |-> r.err]
           /\ UNCHANGED <<now, buckets, known_peers, bad_peers, hist, tasks, reporters, call>>

\* An inbound STORE query (try_consume_query -> process_store)
Store == StoreWith(StoreValues)

\* An inbound STORE of an overlay roster
StoreRoster == StoreWith(RosterValues)

\* An inbound FIND_VALUE query (try_consume_query -> process_find_value)
FindValue ==
    \E key \in DhtKeyIds, k \in FindValueK :
        LET r == process_find_value(storage, buckets, key, k, now)
        IN /\ req = Idle
           /\ req' = [op |-> "FindValue", key |-> key, k |-> k, now |-> now,
                      err |-> r.err, found |-> r.found, nodes |-> r.nodes]
           /\ UNCHANGED <<storage, now, buckets, known_peers, bad_peers, hist, tasks,
                          reporters, call>>

\* fetch_address(key_id)
FetchAddress ==
    \E key_id \in {Ed1.id, Ov2.id} :
        LET key == hash(dht_key_from_key_id(key_id, "address"))
            value == search_dht_key(storage, key, now)
            parsed == IF value = NoValue THEN [err |-> FALSE] ELSE parse_value_as_address(value)
        IN /\ req = Idle
           /\ req' = [op |-> "FetchAddress", key |-> key, now |-> now,
                      err |-> parsed.err, found |-> value]
           /\ UNCHANGED <<storage, now, buckets, known_peers, bad_peers, hist, tasks,
                          reporters, call>>

\* store_ip_address up to its first await: the signed own address is put locally
StoreIpAddress ==
    LET value == sign_value("address", AddressList(OwnAddress), Ed1, now)
        r == process_store_signed_value(hash(value.key), value, storage)
    IN /\ req = Idle
       /\ storage' = r.storage
       /\ req' = [op |-> "StoreIpAddress", value |-> value, now |-> now,
                  before |-> storage, err |-> r.err]
       /\ UNCHANGED <<now, buckets, known_peers, bad_peers, hist, tasks, reporters, call>>

\* store_overlay_node up to its first await: the node is verified and put locally
StoreOverlayNode ==
    \E node \in OverlayNodeRecords :
        LET value == overlay_node_value(node, now)
            r == IF ~verify_node(node) THEN StoreErr(storage)
                 ELSE process_store_overlay_nodes(hash(value.key), value, storage, now)
        IN /\ req = Idle
           /\ storage' = r.storage
           /\ req' = [op |-> "StoreOverlayNode", value |-> value, now |-> now,
                      before |-> storage, err |-> r.err]
           /\ UNCHANGED <<now, buckets, known_peers, bad_peers, hist, tasks, reporters, call>>

NextStore ==
    \/ Store
    \/ FindValue
    \/ FetchAddress
    \/ StoreIpAddress
    \/ Tick
    \/ Reply

SpecStore == Init /\ [][NextStore]_vars

NextRoster ==
    \/ StoreRoster
    \/ StoreOverlayNode
    \/ FindValue
    \/ Tick
    \/ Reply

SpecRoster == Init /\ [][NextRoster]_vars

----------------------------------------------------------------------------
(* Properties of the value store *)

IsPut == req.op \in {"Store", "StoreIpAddress", "StoreOverlayNode"}

PutKey == hash(req.value.key)

\* A Signature-rule put that passes validation: unexpired when inbound, and both
\* signatures made by the key of the key description
AdmittedSignedPut ==
    /\ req.op \in {"Store", "StoreIpAddress"}
    /\ req.value.rule = "Signature"
    /\ req.op = "Store" => req.value.ttl > req.now
    /\ req.value.id.kind = "Ed25519"
    /\ req.value.sig = "good"
    /\ req.value.ksig = "good"

\* C1: a Signature-rule put on a key that holds an entry e replaces e when
\* new.ttl > e.ttl and leaves e exactly as it was when new.ttl <= e.ttl.
C1_SignedPutByTtl ==
    (AdmittedSignedPut /\ req.before[PutKey] # NoValue) =>
        /\ req.value.ttl > req.before[PutKey].ttl => storage[PutKey] = req.value
        /\ req.value.ttl <= req.before[PutKey].ttl => storage[PutKey] = req.before[PutKey]

C1_Witness ==
    /\ AdmittedSignedPut
    /\ req.before[PutKey] # NoValue
    /\ storage[PutKey] = req.value
    /\ storage[PutKey] # req.before[PutKey]

\* The validation failures of an inbound STORE
InvalidStore(value, t) ==
    \/ value.ttl <= t
    \/ value.rule \notin {"Signature", "OverlayNodes"}
    \/ /\ value.rule = "Signature"
       /\ ~(value.id.kind = "Ed25519" /\ value.sig = "good" /\ value.ksig = "good")
    \/ /\ value.rule = "OverlayNodes"
       /\ \/ value.sig # "empty"
          \/ value.ksig # "empty"
          \/ value.id.kind # "Overlay"
          \/ value.key # [id |-> value.id.id, idx |-> 0, name |-> "nodes"]

\* C2: an inbound STORE that fails a validation returns an error and leaves the whole
\* value store as it was.
C2_InvalidStoreRejected ==
    (req.op = "Store" /\ InvalidStore(req.value, req.now)) =>
        (req.err /\ storage = req.before)

C2_Witness ==
    /\ req.op = "Store"
    /\ InvalidStore(req.value, req.now)
    /\ req.value.ttl > req.now
    /\ req.err
    /\ \E k \in DhtKeyIds : storage[k] # NoValue

EntryAt(key) == IF key \in DOMAIN storage THEN storage[key] ELSE NoValue

----------------------------------------------------------------------------
(* Properties of the overlay roster merge *)

Range(f) == {f[i] : i \in DOMAIN f}

\* The node records of a stored entry (none when it is no overlay nodes list)
RosterOf(entry) ==
    IF entry # NoValue /\ entry.value.type = "OverlayNodes"
    THEN Range(entry.value.nodes) ELSE {}

\* The members of the roster of value that pass overlay-node verification
Passing(value) == {n \in RosterOf(value) : n.signature = "good"}

\* An inbound STORE of a well formed, unexpired roster value with a passing member
ValidRosterStore ==
    /\ req.op = "Store"
    /\ req.value.rule = "OverlayNodes"
    /\ ~InvalidStore(req.value, req.now)
    /\ Passing(req.value) # {}

\* ... whose members have distinct ids, on a key that holds an unexpired roster
OnLiveRoster ==
    /\ ValidRosterStore
    /\ \A i, j \in DOMAIN req.value.value.nodes :
           req.value.value.nodes[i].id = req.value.value.nodes[j].id => i = j
    /\ req.before[PutKey] # NoValue
    /\ req.before[PutKey].rule = "OverlayNodes"
    /\ req.before[PutKey].ttl > req.now

\* roster holds, for node id, a record of exactly the largest version in records
HasLargest(roster, records, id) ==
    \E n \in roster :
        /\ n.id = id
        /\ n.version = Max({m.version : m \in {r \in records : r.id = id}})

\* C3: after STOREs of rosters R1 then R2 the stored roster contains every node id
\* of R1 or R2, each with its larger version, whatever the ttls.
C3_MergeKeepsAllNodes ==
    OnLiveRoster =>
        LET all == RosterOf(req.before[PutKey]) \cup Passing(req.value)
        IN \A id \in {n.id : n \in all} : HasLargest(RosterOf(storage[PutKey]), all, id)

\* The incoming roster brings no new node id and no higher version
NoNews ==
    \A n \in Passing(req.value) :
        \E o \in RosterOf(req.before[PutKey]) : o.id = n.id /\ o.version >= n.version

\* C4: the entry stays unchanged only when the roster brings nothing new and its ttl
\* does not exceed the stored ttl; otherwise the entry is the merged roster with the
\* incoming ttl.
C4_UnchangedOnlyWithoutNews ==
    OnLiveRoster =>
        IF NoNews /\ req.value.ttl <= req.before[PutKey].ttl
        THEN storage[PutKey] = req.before[PutKey]
        ELSE /\ storage[PutKey].ttl = req.value.ttl
             /\ LET all == RosterOf(req.before[PutKey]) \cup Passing(req.value)
                IN \A id \in {n.id : n \in all} :
                       HasLargest(RosterOf(storage[PutKey]), all, id)

\* C5: a roster STORE with no passing member is an error that changes nothing; when
\* the store changes, the passing members are in the stored roster (or a newer
\* record of the same id is) and no failing member is.
C5_OnlyPassingMembersMerge ==
    (IsPut /\ req.op # "StoreIpAddress" /\ req.value.rule = "OverlayNodes") =>
        /\ Passing(req.value) = {} => (req.err /\ storage = req.before)
        /\ storage # req.before =>
              /\ RosterOf(storage[PutKey])
                     \subseteq RosterOf(req.before[PutKey]) \cup Passing(req.value)
              /\ \A n \in Passing(req.value) :
                     \E m \in RosterOf(storage[PutKey]) :
                         m.id = n.id /\ m.version >= n.version

C5_Witness ==
    /\ req.op = "Store"
    /\ storage # req.before
    /\ Passing(req.value) # {}
    /\ Passing(req.value) # RosterOf(req.value)

----------------------------------------------------------------------------
(* STORE handlers running at the same time *)

ConcSigned ==
    {DhtValue("Signature", Ed1, AddressKey, "good", sig, ttl, AddressList(a)) :
        sig \in {"good", "bad"}, ttl \in 1..MaxTtl, a \in Addresses}

ConcRosters ==
    {DhtValue("OverlayNodes", Ov2, NodesKey, "empty", "empty", ttl, OverlayNodes(<<n>>)) :
        ttl \in 1..MaxTtl, n \in {m \in OverlayNodeRecords : m.signature = "good"}}

ConcValues == ConcSigned \cup ConcRosters

\* process_store up to the map update: the checks that come before the closure
store_checked(value, t) ==
    /\ value.ttl > t
    /\ \/ value.rule = "Signature" /\ verify_value(value)
       \/ value.rule = "OverlayNodes" /\ overlay_nodes_checked(value)

\* The closure the handler of value hands to the map, applied to the entry it sees
store_update(old_value, value, t) ==
    IF value.rule = "Signature"
    THEN signed_value_update(old_value, value)
    ELSE overlay_nodes_update(old_value, value,
             verified_nodes(deserialize_overlay_nodes(value.value).nodes), t)

TaskDone(task, err, changed) ==
    [task EXCEPT !.pc = "done", !.err = err, !.changed = changed]

\* An inbound STORE is taken up by a handler and validated
StartStore(t) ==
    \E value \in ConcValues :
        /\ tasks[t].pc = "idle"
        /\ tasks' = [tasks EXCEPT ![t] =
               IF store_checked(value, now)
               THEN [IdleTask EXCEPT !.pc = "load", !.value = value]
               ELSE TaskDone([IdleTask EXCEPT !.value = value], TRUE, FALSE)]
        /\ UNCHANGED <<storage, now, req, buckets, known_peers, bad_peers, hist, reporters, call>>

\* insert_with reads the entry and runs the closure on it
LoadEntry(t) ==
    LET value == tasks[t].value
        old_value == storage[hash(value.key)]
        upd == store_update(old_value, value, now)
    IN /\ tasks[t].pc = "load"
       /\ tasks' = [tasks EXCEPT ![t] =
              IF upd.kind = "Some"
              THEN [@ EXCEPT !.pc = "cas", !.seen = old_value, !.new = upd.val]
              ELSE TaskDone(@, upd.kind = "Err", FALSE)]
       /\ UNCHANGED <<storage, now, req, buckets, known_peers, bad_peers, hist, reporters, call>>

\* insert_with installs the closure's answer if the entry is still the one it read,
\* and starts over if it is not
CasEntry(t) ==
    LET key == hash(tasks[t].value.key)
    IN /\ tasks[t].pc = "cas"
       /\ IF storage[key] = tasks[t].seen
          THEN /\ storage' = [storage EXCEPT ![key] = tasks[t].new]
               /\ tasks' = [tasks EXCEPT ![t] = TaskDone(@, FALSE, TRUE)]
          ELSE /\ tasks' = [tasks EXCEPT ![t] = [@ EXCEPT !.pc = "load", !.retried = TRUE]]
               /\ UNCHANGED storage
       /\ UNCHANGED <<now, req, buckets, known_peers, bad_peers, hist, reporters, call>>

NextConc ==
    \E t \in Tasks :
        \/ StartStore(t)
        \/ LoadEntry(t)
        \/ CasEntry(t)

SpecConc == Init /\ [][NextConc]_vars

AllDone == \A t \in Tasks : tasks[t].pc = "done"

Orders == {o \in [1..NTasks -> Tasks] : \A i, j \in 1..NTasks : o[i] = o[j] => i = j}

\* The STOREs of the tasks applied one at a time in the order o, from the i-th on
RECURSIVE OneAtATime(_, _, _, _)
OneAtATime(o, i, st, changed) ==
    IF i > NTasks THEN [storage |-> st, changed |-> changed]
    ELSE LET r == process_store(tasks[o[i]].value, st, now)
         IN OneAtATime(o, i + 1, r.storage, [changed EXCEPT ![o[i]] = r.changed])

Linearizable ==
    \E o \in Orders :
        LET r == OneAtATime(o, 1, [k \in DhtKeyIds |-> NoValue], [t \in Tasks |-> FALSE])
        IN /\ r.storage = storage
           /\ \A t \in Tasks : r.changed[t] = tasks[t].changed

\* The Signature-rule values of finished handlers that passed validation
ValidSigned ==
    {tasks[t].value : t \in {u \in Tasks : /\ tasks[u].pc = "done"
                                            /\ tasks[u].value.rule = "Signature"
                                            /\ ~tasks[u].err}}

\* C7: once concurrent STOREs have all finished, the store and the replies are those
\* of the same STOREs applied one at a time in some order; the Signature-rule entry
\* is a valid value of maximum ttl; every node record a roster STORE wrote is still
\* in the roster, or a record of the same id with a version at least as large is.
C7_ConcurrentStoresLinearize ==
    /\ AllDone => Linearizable
    /\ (AllDone /\ ValidSigned # {}) =>
           /\ storage[hash(AddressKey)] \in ValidSigned
           /\ storage[hash(AddressKey)].ttl = Max({v.ttl : v \in ValidSigned})
    /\ \A t \in Tasks :
           (tasks[t].pc = "done" /\ tasks[t].value.rule = "OverlayNodes" /\ tasks[t].changed)
               => \A n \in Passing(tasks[t].value) :
                      \E m \in RosterOf(storage[hash(tasks[t].value.key)]) :
                          m.id = n.id /\ m.version >= n.version

C7_Witness ==
    /\ AllDone
    /\ \A t \in Tasks : tasks[t].changed
    /\ \E t \in Tasks : tasks[t].retried
    /\ \A t, u \in Tasks : tasks[t].value.key = tasks[u].value.key

----------------------------------------------------------------------------
(* Peers: routing table and scorer, one call at a time *)

\* Nodes that pass add_peer's checks and carry the first version
FreshNodes == {n \in Nodes : verify_other_node(n) /\ n.addr_list = "a1" /\ n.version = 1}

\* The queries sent to a peer since it had no score, as long as they are
\* MAX_FAIL_COUNT failures followed by up to two successes
Pattern == [i \in 1..(MAX_FAIL_COUNT + 2) |-> IF i <= MAX_FAIL_COUNT THEN "F" ELSE "S"]
OffPattern == <<"other">>
Observe(h, e) ==
    IF h = <<>> /\ e = "S" THEN h
    ELSE IF h # OffPattern /\ Len(h) < Len(Pattern) /\ Pattern[Len(h) + 1] = e
    THEN Append(h, e)
    ELSE OffPattern

AddPeerWith(nodes) ==
    \E node \in nodes :
        LET r == add_peer(node, buckets, known_peers, bad_peers)
            affinity == get_affinity(data(LocalId), data(node.id))
        IN /\ req = Idle
           /\ buckets' = r.buckets
           /\ known_peers' = r.known_peers
           /\ bad_peers' = r.bad_peers
           /\ req' = [op |-> "AddPeer", node |-> node, ret |-> r.ret,
                      affinity |-> affinity,
                      before |-> BucketNode(buckets, affinity, node.id),
                      known |-> node.id \in CacheIds(known_peers)]
           /\ hist' = IF r.ret # NoPeer /\ node.id \in CacheIds(known_peers)
                      THEN [hist EXCEPT ![node.id] = IF @ = <<>> THEN @ ELSE OffPattern]
                      ELSE hist
           /\ UNCHANGED <<storage, now, tasks, reporters, call>>

\* add_peer(node)
AddPeer == AddPeerWith(Nodes)

\* add_peer(node) for a node that passes the checks
AddFreshPeer == AddPeerWith(FreshNodes)

\* A query to peer got its answer: set_query_result(Some(..), peer)
QueryAnswered ==
    \E peer \in PeerIds :
        /\ req = Idle
        /\ bad_peers' = set_query_result(bad_peers, TRUE, peer)
        /\ hist' = [hist EXCEPT ![peer] = Observe(@, "S")]
        /\ UNCHANGED <<storage, now, req, buckets, known_peers, tasks, reporters, call>>

\* A query to peer got no answer: set_query_result(None, peer)
QueryFailed ==
    \E peer \in PeerIds :
        /\ req = Idle
        /\ bad_peers' = set_query_result(bad_peers, FALSE, peer)
        /\ hist' = [hist EXCEPT ![peer] = Observe(@, "F")]
        /\ UNCHANGED <<storage, now, req, buckets, known_peers, tasks, reporters, call>>

NextTable ==
    \/ AddPeer
    \/ Reply

SpecTable == Init /\ [][NextTable]_vars

NextScore ==
    \/ AddFreshPeer
    \/ QueryAnswered
    \/ QueryFailed
    \/ Reply

SpecScore == Init /\ [][NextScore]_vars

\* get_known_peer, called until it returns None, yields peer
Yielded(peer) == peer \in known_peers_from(known_peers, bad_peers, NoIter)

Fails == SubSeq(Pattern, 1, MAX_FAIL_COUNT)

\* C8 as stated: from no score, after MAX_FAIL_COUNT failed queries get_known_peer
\* skips the peer, and after one success more it returns the peer again.
C8_OneSuccessReadmits ==
    \A peer \in CacheIds(known_peers) :
        /\ hist[peer] = Fails => ~Yielded(peer)
        /\ hist[peer] = Append(Fails, "S") => Yielded(peer)

\* C8: from no score, after MAX_FAIL_COUNT failed queries the score is
\* MAX_FAIL_COUNT + 1 and get_known_peer skips the peer; after one success more the
\* score is MAX_FAIL_COUNT and the peer is still skipped; after a second success the
\* score is MAX_FAIL_COUNT - 1 and get_known_peer returns the peer again.
C8_TwoSuccessesReadmit ==
    \A peer \in CacheIds(known_peers) :
        /\ hist[peer] = Fails =>
               Score(bad_peers, peer) = MAX_FAIL_COUNT + 1 /\ ~Yielded(peer)
        /\ hist[peer] = Append(Fails, "S") =>
               Score(bad_peers, peer) = MAX_FAIL_COUNT /\ ~Yielded(peer)
        /\ hist[peer] = Pattern =>
               Score(bad_peers, peer) = MAX_FAIL_COUNT - 1 /\ Yielded(peer)

C8_Witness ==
    \E peer \in CacheIds(known_peers) : hist[peer] = Pattern /\ Yielded(peer)

\* C10: add_peer with a validly signed node whose id has a record in the routing
\* table leaves the record of the larger version: the incoming node when its version
\* is larger, the record that was there otherwise.
C10_LargerVersionKept ==
    (/\ req.op = "AddPeer"
     /\ verify_other_node(req.node)
     /\ parse_address_list(req.node.addr_list) # NoPeer
     /\ req.before # NoNode) =>
        BucketNode(buckets, req.affinity, req.node.id) =
            IF req.node.version > req.before.version THEN req.node ELSE req.before

----------------------------------------------------------------------------
(* set_query_result calls running at the same time *)

ReportedPeers == {1, 2}

ReporterIdle(r) == [reporters EXCEPT ![r] = IdleReporter]

\* set_query_result(result, peer) is entered
StartReport(r) ==
    \E peer \in ReportedPeers, answered \in BOOLEAN :
        /\ reporters[r].pc = "idle"
        /\ reporters' = [reporters EXCEPT ![r] =
               [pc |-> IF answered THEN "good" ELSE "bad", peer |-> peer, cnt |-> 0]]
        /\ UNCHANGED <<storage, now, req, buckets, known_peers, bad_peers, hist, tasks, call>>

\* set_good_peer: bad_peers.get(peer) and the load of the count
LoadGood(r) ==
    LET peer == reporters[r].peer
    IN /\ reporters[r].pc = "good"
       /\ reporters' = IF peer \in DOMAIN bad_peers /\ bad_peers[peer] >= MAX_FAIL_COUNT
                       THEN [reporters EXCEPT ![r] =
                                [@ EXCEPT !.pc = "cas", !.cnt = bad_peers[peer]]]
                       ELSE ReporterIdle(r)
       /\ UNCHANGED <<storage, now, req, buckets, known_peers, bad_peers, hist, tasks, call>>

\* set_good_peer: compare_exchange(cnt, cnt - 1), and continue when it fails
CasGood(r) ==
    LET peer == reporters[r].peer
        cnt == reporters[r].cnt
    IN /\ reporters[r].pc = "cas"
       /\ IF bad_peers[peer] = cnt
          THEN /\ bad_peers' = [bad_peers EXCEPT ![peer] = cnt - 1]
               /\ reporters' = ReporterIdle(r)
          ELSE /\ reporters' = [reporters EXCEPT ![r] = [@ EXCEPT !.pc = "good", !.cnt = 0]]
               /\ UNCHANGED bad_peers
       /\ UNCHANGED <<storage, now, req, buckets, known_peers, hist, tasks, call>>

\* The failure branch: bad_peers.get(peer) and the load of the count
LoadBad(r) ==
    LET peer == reporters[r].peer
    IN /\ reporters[r].pc = "bad"
       /\ reporters' = IF peer \notin DOMAIN bad_peers
                       THEN [reporters EXCEPT ![r] = [@ EXCEPT !.pc = "insert"]]
                       ELSE IF bad_count_raised(bad_peers[peer])
                       THEN [reporters EXCEPT ![r] = [@ EXCEPT !.pc = "add"]]
                       ELSE ReporterIdle(r)
       /\ UNCHANGED <<storage, now, req, buckets, known_peers, bad_peers, hist, tasks, call>>

\* The failure branch: add_unbound_object_to_map(bad_peers, peer, 0), then the loop
\* starts over
InsertBad(r) ==
    LET peer == reporters[r].peer
    IN /\ reporters[r].pc = "insert"
       /\ bad_peers' = IF peer \in DOMAIN bad_peers THEN bad_peers
                       ELSE bad_peers @@ (peer :> 0)
       /\ reporters' = [reporters EXCEPT ![r] = [@ EXCEPT !.pc = "bad"]]
       /\ UNCHANGED <<storage, now, req, buckets, known_peers, hist, tasks, call>>

\* The failure branch: fetch_add(2) on the AtomicU8
AddBad(r) ==
    LET peer == reporters[r].peer
    IN /\ reporters[r].pc = "add"
       /\ bad_peers' = [bad_peers EXCEPT ![peer] = (@ + 2) % 256]
       /\ reporters' = ReporterIdle(r)
       /\ UNCHANGED <<storage, now, req, buckets, known_peers, hist, tasks, call>>

NextReport ==
    \E r \in Reporters :
        \/ StartReport(r)
        \/ LoadGood(r)
        \/ CasGood(r)
        \/ LoadBad(r)
        \/ InsertBad(r)
        \/ AddBad(r)

SpecReport == Init /\ [][NextReport]_vars

\* C9 as stated: every failure score is at most MAX_FAIL_COUNT.
C9_ScoreWithinCap ==
    \A peer \in DOMAIN bad_peers : bad_peers[peer] \in 0..MAX_FAIL_COUNT

\* C9: with at most NReporters calls of set_query_result running at the same time,
\* every failure score is at most MAX_FAIL_COUNT + 2 * NReporters: a failure adds 2
\* whenever the score it read is at most MAX_FAIL_COUNT, and the sum is not clamped.
C9_ScoreWithinOvershoot ==
    \A peer \in DOMAIN bad_peers : bad_peers[peer] \in 0..(MAX_FAIL_COUNT + 2 * NReporters)

C9_Witness ==
    \E peer \in DOMAIN bad_peers : bad_peers[peer] = MAX_FAIL_COUNT + 2 * NReporters

----------------------------------------------------------------------------
(* FIND_NODE *)

\* u8::saturating_add
saturating_add(a, b) == IF a + b > 255 THEN 255 ELSE a + b

RECURSIVE pow2(_)
pow2(n) == IF n = 0 THEN 1 ELSE 2 * pow2(n - 1)

\* xor <<= n on a u8
shl8(x, n) == (x * pow2(n)) % 256

\* The records of one bucket in the order its iterator yields them
bucket_nodes(bk, affinity) ==
    IF affinity \in DOMAIN bk
    THEN LET ids == bucket_ids(DOMAIN bk[affinity])
         IN [i \in 1..Len(ids) |-> bk[affinity][ids[i]]]
    ELSE <<>>

\* for node in bucket.val().iter() { ret.push(..); if ret.len() == k { break } }
RECURSIVE push_nodes(_, _, _, _)
push_nodes(ret, nodes, i, k) ==
    IF i > Len(nodes) THEN ret
    ELSE LET pushed == Append(ret, nodes[i])
         IN IF Len(pushed) = k THEN pushed ELSE push_nodes(pushed, nodes, i + 1, k)

\* while xor != 0 { .. } of process_find_node
RECURSIVE find_node_bits(_, _, _, _, _)
find_node_bits(bk, xor, subdist, ret, k) ==
    IF xor = 0 THEN ret
    ELSE IF xor \div 16 = 0
    THEN IF Len(ret) = k THEN ret
         ELSE find_node_bits(bk, shl8(xor, 4), saturating_add(subdist, 4), ret, k)
    ELSE LET shift == BITS[(xor \div 16) + 1]
             at == saturating_add(subdist, shift)
             pushed == push_nodes(ret, bucket_nodes(bk, at), 1, k)
         IN IF Len(pushed) = k THEN pushed
            ELSE find_node_bits(bk, shl8(xor, shift + 1), saturating_add(at, 1), pushed, k)

\* for i in 0..32 { .. } of process_find_node
RECURSIVE find_node_bytes(_, _, _, _, _, _, _)
find_node_bytes(bk, key1, key2, i, dist, ret, k) ==
    IF i > KeyIdLen \/ Len(ret) = k THEN ret
    ELSE find_node_bytes(bk, key1, key2, i + 1, saturating_add(dist, 8),
             find_node_bits(bk, xor8(key1[i], key2[i]), dist, ret, k), k)

process_find_node(bk, key, k) == find_node_bytes(bk, data(LocalId), key, 1, 0, <<>>, k)

FindNodeTargets == {LocalId} \cup PeerIds \cup {4}
FindNodeK == {0, 1, 2, 10}

\* An inbound FIND_NODE query (try_consume_query -> process_find_node)
FindNode ==
    \E target \in FindNodeTargets, k \in FindNodeK :
        /\ req = Idle
        /\ req' = [op |-> "FindNode", key |-> target, k |-> k, err |-> FALSE,
                   nodes |-> process_find_node(buckets, data(target), k)]
        /\ UNCHANGED <<storage, now, buckets, known_peers, bad_peers, hist, tasks, reporters, call>>

NextFind ==
    \/ AddFreshPeer
    \/ FindNode
    \/ FindValue
    \/ Reply

SpecFind == Init /\ [][NextFind]_vars

\* Every record of the routing table
KnownRecords == UNION {{buckets[a][id] : id \in DOMAIN buckets[a]} : a \in DOMAIN buckets}

\* The number of leading bits two key ids have in common
common_bits(key1, key2) == IF key1 = key2 THEN 8 * KeyIdLen ELSE get_affinity(key1, key2)

\* C11: FIND_NODE{target, k} replies with min(k, number of known records) records,
\* each at least as close to target as every known record it leaves out.
C11_FindNodeReturnsClosest ==
    req.op = "FindNode" =>
        /\ Len(req.nodes) = Min({req.k, Cardinality(KnownRecords)})
        /\ \A n \in Range(req.nodes) : \A m \in KnownRecords \ Range(req.nodes) :
               common_bits(data(n.id), data(req.key)) >= common_bits(data(m.id), data(req.key))

\* C12: with n >= 1 known records and n <= k, FIND_NODE{target, k} replies with all
\* n records, whatever the target.
C12_FindNodeReturnsAll ==
    (/\ req.op = "FindNode"
     /\ KnownRecords # {}
     /\ Cardinality(KnownRecords) <= req.k) => Range(req.nodes) = KnownRecords

\* C13: no inbound FIND_NODE or FIND_VALUE ends in an error.
C13_FindNeverFails ==
    req.op \in {"FindNode", "FindValue"} => ~req.err

----------------------------------------------------------------------------
(* Queries and query bundles as the link layer hands them over *)

\* TL objects of a query
DhtPing(random_id) == [type |-> "DhtPing", random_id |-> random_id]
DhtPong(random_id) == [type |-> "DhtPong", random_id |-> random_id]
DhtQuery(node) == [type |-> "DhtQuery", node |-> node]
StoreQuery(value) == [type |-> "Store", value |-> value]
GetSignedAddressList == [type |-> "GetSignedAddressList"]
OtherObject == [type |-> "Other"]

\* sign_local_node of the node with key id
sign_local_node(id, t) ==
    [id |-> id, addr_list |-> "a1", version |-> t, signature |-> "good"]

process_ping(query) == DhtPong(query.random_id)

\* QueryResult of the subscriber
Consumed(reply, st) == [kind |-> "Consumed", reply |-> reply, storage |-> st]
Rejected(object, st) == [kind |-> "Rejected", reply |-> object, storage |-> st]
RejectedBundle(objects, st) == [kind |-> "RejectedBundle", reply |-> objects, storage |-> st]
QueryErr(st) == [kind |-> "Err", reply |-> <<>>, storage |-> st]

\* try_consume_query for the queries of the model
try_consume_query(object, st, t) ==
    IF object.type = "DhtPing" THEN Consumed(process_ping(object), st)
    ELSE IF object.type = "GetSignedAddressList"
    THEN Consumed(sign_local_node(LocalId, t), st)
    ELSE IF object.type = "Store"
    THEN LET r == process_store(object.value, st, t)
         IN IF r.err THEN QueryErr(st) ELSE Consumed("Stored", r.storage)
    ELSE Rejected(object, st)

\* Variant: the first object goes back behind the others
insert_last(objects, object) == Append(objects, object)

\* objects.insert(0, object)
insert_first(objects, object) == <<object>> \o objects

\* try_consume_query_bundle: the result and the state afterwards
try_consume_query_bundle(objects, st, bk, kp, bp, t) ==
    LET same == [buckets |-> bk, known_peers |-> kp, bad_peers |-> bp]
    IN IF Len(objects) # 2
       THEN [result |-> RejectedBundle(objects, st)] @@ same
       ELSE LET first_object == Head(objects)
                removed == Tail(objects)
            IN IF first_object.type # "DhtQuery"
               THEN [result |-> RejectedBundle(insert_first(removed, first_object), st)]
                    @@ same
               ELSE LET a == add_peer(first_object.node, bk, kp, bp)
                        ret == try_consume_query(Head(removed), st, t)
                    IN [result |-> IF ret.kind = "Rejected" THEN QueryErr(st) ELSE ret,
                        buckets |-> a.buckets, known_peers |-> a.known_peers,
                        bad_peers |-> a.bad_peers]

\* DhtNode::query sends the query as it is; query_with_prefix puts the sender's
\* DhtQuery{node} in front
query_objects(query) == <<query>>
query_with_prefix_objects(node, query) == <<DhtQuery(node), query>>

\* The objects a peer's ping(dst) and get_signed_address_list(dst) send
ping_objects(random_id) == query_objects(DhtPing(random_id))
get_signed_address_list_objects(id) ==
    query_with_prefix_objects(sign_local_node(id, 1), GetSignedAddressList)

\* The link layer hands a single query to try_consume_query and a bundle to
\* try_consume_query_bundle
consume(objects, st, bk, kp, bp, t) ==
    IF Len(objects) = 1
    THEN [result |-> try_consume_query(objects[1], st, t),
          buckets |-> bk, known_peers |-> kp, bad_peers |-> bp]
    ELSE try_consume_query_bundle(objects, st, bk, kp, bp, t)

RandomIds == {7, 8}

BundleObjects ==
    {DhtPing(7), OtherObject, GetSignedAddressList,
     StoreQuery(DhtValue("Signature", Ed1, AddressKey, "good", "good", 1, AddressList("a2")))}
    \cup {DhtQuery(n) : n \in {m \in Nodes : m.version = 1 /\ m.addr_list = "a1" /\ m.id = 1}}

MaxBundle == 3

Bundles == SeqsUpTo(BundleObjects, MaxBundle)

Consume(op, from, objects) ==
    LET r == consume(objects, storage, buckets, known_peers, bad_peers, now)
    IN /\ req = Idle
       /\ storage' = r.result.storage
       /\ buckets' = r.buckets
       /\ known_peers' = r.known_peers
       /\ bad_peers' = r.bad_peers
       /\ req' = [op |-> op, from |-> from, objects |-> objects,
                  kind |-> r.result.kind, reply |-> r.result.reply,
                  before |-> [storage |-> storage, buckets |-> buckets,
                              known_peers |-> known_peers, bad_peers |-> bad_peers]]
       /\ UNCHANGED <<now, hist, tasks, reporters, call>>

\* An inbound query bundle
Bundle == \E objects \in Bundles : Len(objects) # 1 /\ Consume("Bundle", NoPeer, objects)

\* Peer from calls ping(local node)
PeerPing ==
    \E from \in PeerIds, random_id \in RandomIds :
        Consume("Ping", from, ping_objects(random_id))

\* Peer from calls get_signed_address_list(local node)
PeerGetSignedAddressList ==
    \E from \in PeerIds :
        Consume("GetSignedAddressList", from, get_signed_address_list_objects(from))

NextBundle ==
    \/ Bundle
    \/ PeerPing
    \/ PeerGetSignedAddressList
    \/ Reply

SpecBundle == Init /\ [][NextBundle]_vars

HasRecord(id) == BucketNode(buckets, get_affinity(data(LocalId), data(id)), id) # NoNode

\* C14: whenever a peer's ping of this node is answered with the nonce it sent, the
\* routing table of this node holds the peer's record afterwards.
C14_PingAddsSender ==
    (/\ req.op = "Ping"
     /\ req.kind = "Consumed"
     /\ req.reply = DhtPong(req.objects[Len(req.objects)].random_id)) => HasRecord(req.from)

\* A bundle that is not [DhtQuery{node}, query]
BadShape(objects) == Len(objects) # 2 \/ objects[1].type # "DhtQuery"

\* C15: a bundle of another shape than [DhtQuery{node}, query] comes back as
\* RejectedBundle with the same objects in the same order, and routing table, known
\* peers, scores and value store are as before.
C15_BadBundleRejectedUnchanged ==
    (req.op = "Bundle" /\ BadShape(req.objects)) =>
        /\ req.kind = "RejectedBundle"
        /\ req.reply = req.objects
        /\ req.before = [storage |-> storage, buckets |-> buckets,
                         known_peers |-> known_peers, bad_peers |-> bad_peers]

C15_Witness ==
    /\ req.op = "Bundle"
    /\ Len(req.objects) = 2
    /\ req.objects[1].type = "Store"
    /\ req.objects[2].type = "DhtQuery"
    /\ req.kind = "RejectedBundle"
    /\ buckets # <<>>

----------------------------------------------------------------------------
(* Lookup iterator *)

\* The bytes of a DHT key id. A key id is a hash; the address key hashes to the bytes
\* of id 4, the nodes key to the bytes of id 6.
key_data(key_id) == IF key_id = hash(AddressKey) THEN data(4) ELSE data(6)

saturating_sub(a, b) == IF a > b THEN a - b ELSE 0

\* The affinity DhtIterator::update gives a peer: get_affinity, less the peer's score
effective_affinity(peer, key_id, bp) ==
    LET affinity == get_affinity(data(peer), key_data(key_id))
    IN IF peer \in DOMAIN bp THEN saturating_sub(affinity, bp[peer]) ELSE affinity

\* The while loop of DhtIterator::update; nxt is the cursor with the peer it yielded
RECURSIVE update_walk(_, _, _, _, _)
update_walk(order, nxt, key_id, kp, bp) ==
    IF nxt.peer = NoPeer THEN [iter |-> nxt.iter, order |-> order]
    ELSE LET affinity == effective_affinity(nxt.peer, key_id, bp)
             add == IF order # <<>>
                    THEN order[Len(order)][1] <= affinity \/ Len(order) < MAX_TASKS
                    ELSE TRUE
         IN update_walk(IF add THEN Append(order, <<affinity, nxt.peer>>) ELSE order,
                        get_known_peer(kp, bp, nxt.iter), key_id, kp, bp)

remove_at(s, i) == [j \in 1..(Len(s) - 1) |-> IF j < i THEN s[j] ELSE s[j + 1]]

\* sort_unstable_by_key on the affinity: every ascending arrangement, the order of
\* entries of equal affinity being left open by the sort
RECURSIVE sort_unstable_by_key(_)
sort_unstable_by_key(order) ==
    IF order = <<>> THEN {<<>>}
    ELSE LET least == Min({order[i][1] : i \in DOMAIN order})
         IN UNION {{<<order[i]>> \o rest : rest \in sort_unstable_by_key(remove_at(order, i))} :
                      i \in {j \in DOMAIN order : order[j][1] = least}}

\* Variant: nothing is dropped from the front of order
drop_nothing(order, n) == n

\* The drop_to loop of DhtIterator::update
RECURSIVE drop_to(_, _)
drop_to(order, n) ==
    IF Len(order) - n > MAX_TASKS /\ order[n + 1][1] < order[Len(order)][1]
    THEN drop_to(order, n + 1)
    ELSE n

drain(order, n) == SubSeq(order, n + 1, Len(order))

NewIterator == [iter |-> NoIter, order |-> <<>>]

\* Variant: every update walks the cache from its first slot
update_from_first(it, key_id, kp, bp) ==
    LET walked == update_walk(it.order, get_known_peer(kp, bp, NoIter), key_id, kp, bp)
    IN {[iter |-> walked.iter, order |-> drain(sorted, drop_to(sorted, 0))] :
           sorted \in sort_unstable_by_key(walked.order)}

\* DhtIterator::update: the iterators it may leave, one per outcome of the sort
update(it, key_id, kp, bp) ==
    LET start == IF it.iter # NoIter
                 THEN [iter |-> it.iter, peer |-> given(kp, it.iter)]
                 ELSE get_known_peer(kp, bp, NoIter)
        walked == update_walk(it.order, start, key_id, kp, bp)
    IN {[iter |-> walked.iter, order |-> drain(sorted, drop_to(sorted, 0))] :
           sorted \in sort_unstable_by_key(walked.order)}

\* DhtIterator::with_key_id
with_key_id(key_id, kp, bp) == update(NewIterator, key_id, kp, bp)

----------------------------------------------------------------------------
(* Client calls: find_address and store_ip_address, from one suspension point to the
   next. A call suspends in link.query and in Wait::wait only. *)

\* What a call has returned: nothing yet
NoResult == [kind |-> "pending"]

\* The state of one call. iter, order: its DhtIterator. reqs, queue: its Wait (the
\* count of requests not yet waited for, the responses sent). flying: the queries
\* spawned and not yet completed, per peer. sweep, stores: the peer cursor of
\* store_value and the peers it sent STORE to. swept: the cache slots the sweep has
\* covered; unswept: those it had covered before its last get_known_peer. sent, placed, late: the peers sent
\* FIND_VALUE, the peers update put into order before the last wait, and those the
\* update after the last wait left there. accepted: the peers whose answer passed the check.
NewCall(op, key_id, value) ==
    [op |-> op, pc |-> "start", n |-> call.n + 1,
     prev |-> IF call.op = "none" THEN NoCall ELSE [op |-> call.op, result |-> call.result],
     key_id |-> key_id, value |-> value, limit |-> MAX_TASKS, full |-> TRUE, all |-> FALSE,
     sweep |-> NoIter, stores |-> <<>>, swept |-> 0, unswept |-> 0,
     before |-> storage[key_id],
     iter |-> NoIter, order |-> <<>>, reqs |-> 0, queue |-> <<>>, flying |-> NoFlying,
     ret |-> <<>>, known |-> 0, finished |-> FALSE,
     sent |-> {}, placed |-> {}, late |-> {}, accepted |-> {}, result |-> NoResult]

Running == call.op # "none" /\ call.pc # "done"

\* A call starts when none runs and the queries of the one before have all completed;
\* a publish is the first call, a lookup the first or the one after the publish
CanCall(op) ==
    /\ call.pc = "done"
    /\ call.flying = NoFlying
    /\ call.op = "none" \/ (op = "find_address" /\ call.op = "store_ip_address")

OrderPeers(order) == {order[i][2] : i \in DOMAIN order}

\* find_value up to its loop: the iterator is made, the Wait is new, the count of known
\* peers is noted
find_value_begin(c, it, kp) ==
    [c EXCEPT !.iter = it.iter, !.order = it.order, !.reqs = 0, !.queue = <<>>,
              !.flying = NoFlying, !.ret = <<>>, !.known = count(kp),
              !.finished = ~c.full, !.sent = {}, !.placed = OrderPeers(it.order),
              !.late = {}, !.accepted = {}]

\* Variant: a value_query is spawned for every entry of order
spawn_all_queries(c) ==
    [c EXCEPT !.order = <<>>,
              !.reqs = @ + Len(c.order),
              !.flying = [p \in PeerIds |->
                             @[p] + Cardinality({i \in DOMAIN c.order : c.order[i][2] = p})],
              !.sent = @ \cup OrderPeers(c.order)]

\* while let Some((_, peer)) = iter.order.pop(): a value_query is spawned for the
\* last entry of order until reqs >= limit
RECURSIVE spawn_queries(_)
spawn_queries(c) ==
    IF c.order = <<>> THEN c
    ELSE LET peer == c.order[Len(c.order)][2]
             reqs == c.reqs + 1
             spawned == [c EXCEPT !.order = SubSeq(c.order, 1, Len(c.order) - 1),
                                  !.reqs = reqs,
                                  !.flying[peer] = @ + 1,
                                  !.sent = @ \cup {peer}]
         IN IF reqs >= c.limit THEN spawned ELSE spawn_queries(spawned)

\* Wait::wait ready to return: the count is zero, or a response is in the queue
wait_ready(c) == c.reqs = 0 \/ c.queue # <<>>

\* Variant: wait.wait returning None does not set finished
after_wait_unfinished(c) ==
    IF c.reqs = 0 THEN c
    ELSE LET item == Head(c.queue)
         IN [c EXCEPT !.queue = Tail(c.queue), !.reqs = @ - 1,
                      !.ret = IF item # NoValue THEN Append(@, item) ELSE @]

\* match wait.wait(..) { Some(None) => (), Some(Some(val)) => ret.push(val),
\*                       None => finished = true }
after_wait(c) ==
    IF c.reqs = 0 THEN [c EXCEPT !.finished = TRUE]
    ELSE LET item == Head(c.queue)
         IN [c EXCEPT !.queue = Tail(c.queue), !.reqs = @ - 1,
                      !.ret = IF item # NoValue THEN Append(@, item) ELSE @]

\* "Update iterator if required"
reseed(c, kp, bp) ==
    IF (c.all \/ c.ret = <<>> \/ c.finished) /\ count(kp) # c.known
    THEN {[c EXCEPT !.iter = it.iter, !.order = it.order, !.known = count(kp),
                    !.placed = IF c.finished THEN @ ELSE @ \cup OrderPeers(it.order),
                    !.late = IF c.finished THEN OrderPeers(it.order) ELSE @] :
             it \in update([iter |-> c.iter, order |-> c.order], c.key_id, kp, bp)}
    ELSE {c}

\* "Add more tasks if required": the inner loop is left
leaves_wait_loop(c) == ~c.all \/ Len(c.ret) < c.limit \/ c.finished

\* Variant: the search stops after the first wait, whatever it brought
stops_after_first_wait(c) == TRUE

\* "Stop if possible"
stops(c) == (c.all /\ Len(c.ret) >= c.limit) \/ (~c.all /\ c.ret # <<>>) \/ c.finished

\* The verifier store_ip_address hands to store_value: some value read back carries
\* the address just published
check_vals(vals) ==
    \E i \in DOMAIN vals :
        vals[i].value.type = "AddressList" /\ vals[i].value.addr = OwnAddress

\* The inner loop of store_value: STORE is spawned for the peer in hand and for every
\* peer get_known_peer still yields
RECURSIVE sweep_peers(_, _, _, _)
sweep_peers(c, nxt, kp, bp) ==
    IF nxt.peer = NoPeer THEN [c EXCEPT !.sweep = nxt.iter]
    ELSE sweep_peers([c EXCEPT !.stores = Append(@, nxt.peer), !.reqs = @ + 1,
                               !.flying[nxt.peer] = @ + 1],
                     get_known_peer(kp, bp, nxt.iter), kp, bp)

\* while peer.is_some() { .. } Ok(false): one more round of STOREs, or the end
store_value_round(c, nxt, kp, bp) ==
    IF nxt.peer = NoPeer
    THEN [c EXCEPT !.pc = "done", !.sweep = nxt.iter, !.result = [kind |-> "false"],
                   !.unswept = c.swept, !.swept = count(kp)]
    ELSE [sweep_peers([c EXCEPT !.reqs = 0, !.queue = <<>>], nxt, kp, bp)
             EXCEPT !.pc = "store", !.unswept = c.swept, !.swept = count(kp)]

\* What follows find_value in the caller. find_address: the last value found, parsed.
\* store_value: true when the verifier accepts, else the sweep goes on from its cursor.
find_value_end(c, kp, bp) ==
    IF c.op = "find_address"
    THEN [c EXCEPT !.pc = "done",
                   !.result =
                       IF c.ret = <<>> THEN [kind |-> "none"]
                       ELSE LET a == parse_value_as_address(c.ret[Len(c.ret)])
                            IN [kind |-> IF a.err THEN "error" ELSE "some",
                                addr |-> a.addr, key |-> a.key]]
    ELSE IF check_vals(c.ret)
    THEN [c EXCEPT !.pc = "done", !.result = [kind |-> "true"]]
    ELSE store_value_round(c, get_known_peer(kp, bp, c.sweep), kp, bp)

\* The values a peer may answer FIND_VALUE with: the address key's value with either
\* address, and a value that is no address list
FoundValues ==
    {DhtValue("Signature", Ed1, AddressKey, "good", "good", TIMEOUT_VALUE, AddressList(a)) :
        a \in Addresses}
    \cup {DhtValue("OverlayNodes", Ov2, NodesKey, "empty", "empty", TIMEOUT_VALUE,
                   OverlayNodes(<<>>))}

\* The nodes a peer may suggest in ValueNotFound
SuggestedNodes == SeqsUpTo(FreshNodes, 1)

\* check of find_address and store_ip_address: object.is::<AddressListBoxed>()
is_address_list(object) == object.type = "AddressList"

\* for node in nodes.iter() { self.add_peer(node)?; }
RECURSIVE add_peers(_, _, _, _, _)
add_peers(nodes, i, bk, kp, bp) ==
    IF i > Len(nodes) THEN [buckets |-> bk, known_peers |-> kp, bad_peers |-> bp]
    ELSE LET r == add_peer(nodes[i], bk, kp, bp)
         IN add_peers(nodes, i + 1, r.buckets, r.known_peers, r.bad_peers)

\* find_address(key_id) for the local key, up to its first wait
StartFindAddress ==
    LET key_id == hash(dht_key_from_key_id(Ed1.id, "address"))
    IN /\ req = Idle
       /\ CanCall("find_address")
       /\ \E it \in with_key_id(key_id, known_peers, bad_peers) :
              call' = [spawn_queries(find_value_begin(
                           NewCall("find_address", key_id, NoValue), it, known_peers))
                          EXCEPT !.pc = "wait"]
       /\ UNCHANGED <<storage, now, req, buckets, known_peers, bad_peers, hist, tasks,
                      reporters>>

\* What the call may be when wait.wait has returned and find_value has gone on to its
\* next wait or to the end of the call
harvests(c, kp, bp) ==
    {IF ~leaves_wait_loop(d) THEN d
     ELSE IF stops(d) THEN find_value_end(d, kp, bp)
     ELSE spawn_queries(d) : d \in reseed(after_wait(c), kp, bp)}

\* find_value: wait.wait returns; up to the next wait or to the end of the call
Harvest ==
    /\ req = Idle
    /\ Running
    /\ call.pc = "wait"
    /\ wait_ready(call)
    /\ \E c \in harvests(call, known_peers, bad_peers) : call' = c
    /\ UNCHANGED <<storage, now, req, buckets, known_peers, bad_peers, hist, tasks,
                   reporters>>

\* One value_query task runs to its end: the query returns an error or no answer, or it
\* is answered with ValueFound or with ValueNotFound
Responded(peer, item) ==
    call' = [call EXCEPT !.flying[peer] = @ - 1, !.queue = Append(@, item),
                         !.accepted = IF item # NoValue THEN @ \cup {peer} ELSE @]

QueryError ==
    \E peer \in PeerIds :
        /\ req = Idle
        /\ call.op # "none" /\ call.pc \in {"wait", "done"} /\ call.flying[peer] > 0
        /\ Responded(peer, NoValue)
        /\ UNCHANGED <<storage, now, req, buckets, known_peers, bad_peers, hist, tasks,
                       reporters>>

QueryTimeout ==
    \E peer \in PeerIds :
        /\ req = Idle
        /\ call.op # "none" /\ call.pc \in {"wait", "done"} /\ call.flying[peer] > 0
        /\ bad_peers' = set_query_result(bad_peers, FALSE, peer)
        /\ Responded(peer, NoValue)
        /\ UNCHANGED <<storage, now, req, buckets, known_peers, hist, tasks, reporters>>

ValueFound ==
    \E peer \in PeerIds, value \in FoundValues :
        /\ req = Idle
        /\ call.op # "none" /\ call.pc \in {"wait", "done"} /\ call.flying[peer] > 0
        /\ bad_peers' = set_query_result(bad_peers, TRUE, peer)
        /\ Responded(peer, IF is_address_list(value.value) THEN value ELSE NoValue)
        /\ UNCHANGED <<storage, now, req, buckets, known_peers, hist, tasks, reporters>>

ValueNotFound ==
    \E peer \in PeerIds, nodes \in SuggestedNodes :
        LET r == add_peers(nodes, 1, buckets, known_peers,
                           set_query_result(bad_peers, TRUE, peer))
        IN /\ req = Idle
           /\ call.op # "none" /\ call.pc \in {"wait", "done"} /\ call.flying[peer] > 0
           /\ buckets' = r.buckets
           /\ known_peers' = r.known_peers
           /\ bad_peers' = r.bad_peers
           /\ Responded(peer, NoValue)
           /\ UNCHANGED <<storage, now, req, hist, tasks, reporters>>

\* store_ip_address(key) for the local key, up to its first wait: the signed address is
\* put locally, then store_value sends STORE to every peer get_known_peer yields
StartStoreIpAddress ==
    LET value == sign_value("address", AddressList(OwnAddress), Ed1, now)
        key_id == hash(value.key)
        r == process_store_signed_value(key_id, value, storage)
        c == NewCall("store_ip_address", key_id, value)
    IN /\ req = Idle
       /\ CanCall("store_ip_address")
       /\ storage' = r.storage
       /\ call' = IF r.err THEN [c EXCEPT !.pc = "done", !.result = [kind |-> "error"]]
                  ELSE store_value_round(c, get_known_peer(known_peers, bad_peers, NoIter),
                                         known_peers, bad_peers)
       /\ UNCHANGED <<now, req, buckets, known_peers, bad_peers, hist, tasks, reporters>>

\* One STORE task of store_value runs to its end: answered or not
StoreAnswered ==
    \E peer \in PeerIds :
        /\ req = Idle
        /\ Running /\ call.pc = "store" /\ call.flying[peer] > 0
        /\ bad_peers' = set_query_result(bad_peers, TRUE, peer)
        /\ call' = [call EXCEPT !.flying[peer] = @ - 1]
        /\ UNCHANGED <<storage, now, req, buckets, known_peers, hist, tasks, reporters>>

StoreTimeout ==
    \E peer \in PeerIds :
        /\ req = Idle
        /\ Running /\ call.pc = "store" /\ call.flying[peer] > 0
        /\ bad_peers' = set_query_result(bad_peers, FALSE, peer)
        /\ call' = [call EXCEPT !.flying[peer] = @ - 1]
        /\ UNCHANGED <<storage, now, req, buckets, known_peers, hist, tasks, reporters>>

\* store_value: every STORE has responded, while wait.wait(..).is_some() {} ends and
\* the readback find_value starts with a new iterator, up to its first wait
ReadBack ==
    /\ req = Idle
    /\ Running /\ call.pc = "store" /\ call.flying = NoFlying
    /\ \E it \in with_key_id(call.key_id, known_peers, bad_peers) :
           call' = [spawn_queries(find_value_begin([call EXCEPT !.reqs = 0], it, known_peers))
                       EXCEPT !.pc = "wait"]
    /\ UNCHANGED <<storage, now, req, buckets, known_peers, bad_peers, hist, tasks,
                   reporters>>

\* An inbound STORE of an address of the local key made earlier, before any call
PriorValues ==
    {DhtValue("Signature", Ed1, AddressKey, "good", "good", ttl, AddressList("a2")) :
        ttl \in {MaxTtl, TIMEOUT_VALUE}}

StorePrior == call = NoCall /\ StoreWith(PriorValues)

\* fetch_address after a call has returned
FetchAfterCall == call.op # "none" /\ call.pc = "done" /\ FetchAddress

\* add_peer(node) for an inbound query bundle, between calls
AddPeerBetweenCalls == call.pc = "done" /\ AddFreshPeer

\* add_peer(node) for an inbound query bundle while find_value has no query in flight
\* (while queries are in flight, peers come in with ValueNotFound)
AddPeerWhileDrained == Running /\ call.pc = "wait" /\ call.reqs = 0 /\ AddFreshPeer

\* A lookup of the local address on a node that has published nothing
FindAddressFirst == call.op = "none" /\ StartFindAddress

\* A query of some earlier call to one of these peers got no answer:
\* set_query_result(None, peer)
FailingPeers == {1, 2}

FailedBefore ==
    \E peer \in FailingPeers :
        /\ req = Idle
        /\ call.op = "none"
        /\ bad_peers' = set_query_result(bad_peers, FALSE, peer)
        /\ UNCHANGED <<storage, now, req, buckets, known_peers, hist, tasks, reporters,
                       call>>

NextLookup ==
    \/ AddPeerBetweenCalls
    \/ FailedBefore
    \/ AddPeerWhileDrained
    \/ FindAddressFirst
    \/ Harvest
    \/ QueryError
    \/ QueryTimeout
    \/ ValueFound
    \/ ValueNotFound
    \/ Reply

SpecLookup == Init /\ [][NextLookup]_vars

\* A lookup of the local address after the publish has returned, on a node that knows
\* no peer
FindAddressAlone ==
    /\ call.op = "store_ip_address"
    /\ count(known_peers) = 0
    /\ StartFindAddress

NextPublish ==
    \/ AddPeerBetweenCalls
    \/ StorePrior
    \/ StartStoreIpAddress
    \/ StoreAnswered
    \/ StoreTimeout
    \/ ReadBack
    \/ Harvest
    \/ QueryError
    \/ QueryTimeout
    \/ ValueFound
    \/ ValueNotFound
    \/ FetchAfterCall
    \/ FindAddressAlone
    \/ Reply

SpecPublish == Init /\ [][NextPublish]_vars


----------------------------------------------------------------------------
(* find_address *)

Healthy(bp, peer) == Score(bp, peer) < MAX_FAIL_COUNT

\* The step in which find_address returns None
ReturnsNone ==
    /\ call.pc = "wait"
    /\ call'.op = "find_address"
    /\ call'.pc = "done"
    /\ call'.result.kind = "none"

C16_LateWitness ==
    /\ call.op = "find_address"
    /\ call.pc = "done"
    /\ call.result.kind = "none"
    /\ call.late # {}

----------------------------------------------------------------------------
(* store_ip_address *)

\* fetch_address(key.id) has just answered, after store_ip_address(key) returned true
\* and before the ttl of the published value has passed
FetchedAfterPublished ==
    /\ call.op = "store_ip_address"
    /\ call.pc = "done"
    /\ call.result.kind = "true"
    /\ req.op = "FetchAddress"
    /\ req.key = call.key_id
    /\ req.now < call.value.ttl

\* fetch_address returned the address just published, with the key of the publish
FetchedOwnAddress ==
    /\ req.found # NoValue
    /\ ~req.err
    /\ parse_value_as_address(req.found).addr = OwnAddress
    /\ parse_value_as_address(req.found).key = Ed1

\* C17 as stated: whenever store_ip_address(key) has returned true, a following
\* fetch_address(key.id) on the same node returns the node's own just-published address
\* with key's public key, whatever entry was stored under that key before the publish.
C17_FetchAfterPublish == FetchedAfterPublished => FetchedOwnAddress

\* The entry under the key before the publish, if any, expired earlier than the
\* published value does
OlderBefore == call.before = NoValue \/ call.before.ttl < call.value.ttl

\* C17 amended: whenever store_ip_address(key) has returned true and the entry stored
\* under the key before the publish, if any, had a smaller ttl than the published value,
\* a following fetch_address(key.id) returns the own just-published address with key's
\* public key (no other STORE for the key being admitted since the publish began).
C17_FetchAfterPublishOverOlder ==
    (FetchedAfterPublished /\ OlderBefore) => FetchedOwnAddress

\* The publish replaced an entry with another address and returned true, and
\* fetch_address has answered
C17_Witness ==
    /\ FetchedAfterPublished
    /\ call.before # NoValue
    /\ call.before.value.addr # OwnAddress
    /\ OlderBefore
    /\ FetchedOwnAddress

\* C18: on a node that knows no peer, publishing the own address and then calling
\* find_address for the own key id returns the address just published.
C18_PublishThenFindAlone ==
    (/\ call.op = "find_address"
     /\ call.pc = "done"
     /\ call.prev.op = "store_ip_address"
     /\ count(known_peers) = 0)
    => (call.result.kind = "some" /\ call.result.addr = OwnAddress)

\* The step in which store_value returns
PublishReturns ==
    /\ call' # call
    /\ call'.op = "store_ip_address"
    /\ call'.pc = "done"

NoDuplicates(s) == \A i, j \in DOMAIN s : i # j => s[i] # s[j]

\* C19: store_value returns true only if the verifier accepted the values of a readback
\* find_value; it returns false only when no healthy known peer is left that the sweep
\* has not covered (after a rejected readback the sweep goes on with the peers not yet
\* swept); and no peer is sent STORE twice within one publish.
C19_PublishSweepsEveryPeer ==
    [][PublishReturns =>
          /\ call'.result.kind = "true" => check_vals(call'.ret)
          /\ call'.result.kind = "false" =>
                 \A i \in (call'.unswept + 1)..count(known_peers') :
                     Healthy(bad_peers', known_peers'.index[i])
                         => \E j \in DOMAIN call'.stores :
                                call'.stores[j] = known_peers'.index[i]
          /\ NoDuplicates(call'.stores)]_vars

----------------------------------------------------------------------------
(* find_overlay_nodes_with_context: calls that share one OverlayNodesSearchContext.
   What find_value and find_address_with_context return is chosen by the environment;
   their own steps are those of the lookup above. *)

MaxResolves == 3   \* calls made with the one context, and lists found for them

\* The members of a roster read from the DHT are named by their key ids
MemberIds == PeerIds

\* The OverlayNodes lists find_value may return: none, one list of one or two members,
\* two lists with the same member
FoundRosters == {<<a>> : a \in MemberIds} \cup {<<a, b>> : a, b \in MemberIds}
FoundLists ==
    {<<>>} \cup {<<r>> : r \in FoundRosters} \cup {<<(<<a>>), (<<a>>)>> : a \in MemberIds}

\* The members whose address may not be found
UnresolvedIds == {3}

\* OverlayNodesSearchContext { key_id, search: VecDeque::new(), stored: with_limit(..) }
NewSearchContext == [search |-> <<>>, stored |-> with_limit(MaxPeers)]

\* AddressCache::contains
contains(kp, id) == id \in CacheIds(kp)

\* The state of one call: search, stored are the context; iter_none tells whether the
\* caller's iterator is None; rounds counts the find_value calls that found a list.
\* For observation: returned, the ids returned so far; again, the ids returned more than
\* once; evicted, the ids that left stored; dropped, the ids resolved again and not
\* appended; pending, the members this call found in search or took from a roster.
\* full, limit: the policy, FullSearch(MAX_TASKS) unless the caller gives another
NewResolve(ctx, iter_none, returned) ==
    [op |-> "find_overlay_nodes", pc |-> "start", n |-> call.n + 1, flying |-> NoFlying,
     full |-> TRUE, limit |-> MAX_TASKS,
     pending |-> {ctx.search[i] : i \in DOMAIN ctx.search},
     rounds |-> IF call.op = "none" THEN 0 ELSE call.rounds,
     search |-> ctx.search, stored |-> ctx.stored, postponed |-> <<>>, ret |-> <<>>,
     reqs |-> 0, queue |-> <<>>, iter_none |-> iter_none, returned |-> returned,
     again |-> IF call.op = "none" THEN {} ELSE call.again,
     evicted |-> IF call.op = "none" THEN {} ELSE call.evicted,
     dropped |-> {}]

\* let limit = match &policy { FastSearch(_) => 1, FullSearch(limit) => *limit }
search_limit(c) == IF c.full THEN c.limit ELSE 1

\* while let Some(mut ctx_resolve) = ctx_search.search.pop_front(): a member already in
\* stored is passed over, a resolve task is spawned for any other until reqs >= limit
RECURSIVE spawn_resolves(_)
spawn_resolves(c) ==
    IF c.search = <<>> THEN c
    ELSE LET id == Head(c.search)
             popped == [c EXCEPT !.search = Tail(c.search)]
         IN IF contains(c.stored, id) THEN spawn_resolves(popped)
            ELSE LET spawned == [popped EXCEPT !.reqs = @ + 1, !.flying[id] = @ + 1]
                 IN IF spawned.reqs >= search_limit(c) THEN spawned
                    ELSE spawn_resolves(spawned)

\* The top of the loop: with an empty search queue find_value is awaited, else a batch
\* of resolve tasks is spawned with a new Wait
resolve_loop(c) ==
    IF c.search = <<>> THEN [c EXCEPT !.pc = "find_value"]
    ELSE [spawn_resolves([c EXCEPT !.reqs = 0, !.queue = <<>>]) EXCEPT !.pc = "wait"]

\* ctx_search.search.append(&mut postponed); Ok(ret)
resolve_return(c) ==
    [c EXCEPT !.search = c.search \o c.postponed, !.postponed = <<>>, !.pc = "done"]

\* while let Some((_, nodes_list)) = nodes_lists.pop(): the members of the lists, the
\* last list first
RECURSIVE list_members(_)
list_members(lists) ==
    IF lists = <<>> THEN <<>>
    ELSE lists[Len(lists)] \o list_members(SubSeq(lists, 1, Len(lists) - 1))

\* Variant: a resolved member is appended whatever put says
push_resolved_always(added, ret, id) == Append(ret, id)

\* if ctx_search.stored.put(..)? { ret.push(..) }
push_resolved(added, ret, id) == IF added THEN Append(ret, id) ELSE ret

\* Variant: a member not resolved is postponed under either policy
postpone_always(full, postponed, id) == Append(postponed, id)

\* FastSearch(_) => (), FullSearch(_) => postponed.push_back(ctx_resolve)
postpone(full, postponed, id) == IF full THEN Append(postponed, id) ELSE postponed

\* One turn of the loop around wait.wait: a member not resolved is postponed
\* (FullSearch), a resolved one is put into stored and appended when it was not there;
\* with the Wait drained the call returns what it has, or returns because the iterator
\* is None, or goes round again
resolve_wait(c) ==
    IF c.reqs = 0
    THEN IF c.ret # <<>> \/ c.iter_none THEN resolve_return(c) ELSE resolve_loop(c)
    ELSE LET item == Head(c.queue)
             rest == [c EXCEPT !.queue = Tail(c.queue), !.reqs = @ - 1]
             p == put(c.stored, item.id)
         IN IF ~item.resolved
            THEN [rest EXCEPT !.postponed = postpone(c.full, @, item.id)]
            ELSE LET ret == push_resolved(p.added, c.ret, item.id)
                 IN [rest EXCEPT !.stored = p.cache,
                                 !.ret = ret,
                                 !.returned = IF ret # c.ret THEN @ \cup {item.id} ELSE @,
                                 !.again = IF ret # c.ret /\ item.id \in c.returned
                                           THEN @ \cup {item.id} ELSE @,
                                 !.evicted = @ \cup (CacheIds(c.stored) \ CacheIds(p.cache)),
                                 !.dropped = IF p.added THEN @ ELSE @ \cup {item.id}]

\* find_overlay_nodes_with_context is called, with a new context or with the one of
\* the calls before, up to its first await
StartResolveWith(policies) ==
    \E policy \in policies :
        LET new == IF call.op = "none" THEN NewResolve(NewSearchContext, TRUE, {})
                   ELSE NewResolve(call, call.iter_none, call.returned)
        IN /\ req = Idle
           /\ call.pc = "done"
           /\ call.op \in {"none", "find_overlay_nodes"}
           /\ call.n < MaxResolves
           /\ call' = resolve_loop([new EXCEPT !.full = policy.full,
                                               !.limit = policy.limit])
           /\ UNCHANGED <<storage, now, req, buckets, known_peers, bad_peers, hist, tasks,
                          reporters>>

\* DhtSearchPolicy
FullSearch(limit) == [full |-> TRUE, limit |-> limit]
FastSearch(limit) == [full |-> FALSE, limit |-> limit]

\* find_overlay_nodes: the call with FullSearch(MAX_TASKS)
StartResolve == StartResolveWith({FullSearch(MAX_TASKS)})

\* find_value returns its lists and leaves the caller's iterator set or None
RostersFound ==
    \E lists \in FoundLists, iter_none \in BOOLEAN :
        LET m == list_members(lists) IN
        /\ req = Idle
        /\ call.op = "find_overlay_nodes"
        /\ call.pc = "find_value"
        /\ lists # <<>> => call.rounds < MaxResolves
        /\ call' = IF lists = <<>> THEN resolve_return([call EXCEPT !.iter_none = iter_none])
                   ELSE resolve_loop([call EXCEPT !.iter_none = iter_none,
                                                  !.rounds = @ + 1,
                                                  !.pending = @ \cup
                                                      {m[i] : i \in DOMAIN m},
                                                  !.search = m \o call.postponed,
                                                  !.postponed = <<>>])
        /\ UNCHANGED <<storage, now, req, buckets, known_peers, bad_peers, hist, tasks,
                       reporters>>

\* One resolve task ends: find_address_with_context found the member's address or not
MemberResolved ==
    \E id \in MemberIds, resolved \in BOOLEAN :
        /\ req = Idle
        /\ ~resolved => id \in UnresolvedIds
        /\ call.op = "find_overlay_nodes"
        /\ call.pc = "wait"
        /\ call.flying[id] > 0
        /\ call' = [call EXCEPT !.flying[id] = @ - 1,
                                !.queue = Append(@, [id |-> id, resolved |-> resolved])]
        /\ UNCHANGED <<storage, now, req, buckets, known_peers, bad_peers, hist, tasks,
                       reporters>>

\* wait.wait returns in find_overlay_nodes_with_context
HarvestResolved ==
    /\ req = Idle
    /\ call.op = "find_overlay_nodes"
    /\ call.pc = "wait"
    /\ wait_ready(call)
    /\ call' = resolve_wait(call)
    /\ UNCHANGED <<storage, now, req, buckets, known_peers, bad_peers, hist, tasks,
                   reporters>>

NextResolve ==
    \/ StartResolve
    \/ RostersFound
    \/ MemberResolved
    \/ HarvestResolved

SpecResolve == Init /\ [][NextResolve]_vars

\* find_overlay_nodes_with_context has been called
Resolving == call.op = "find_overlay_nodes"

\* C20 as stated: across all calls of find_overlay_nodes_with_context that share one
\* context, no node id is returned more than once.
C20_NoIdReturnedTwice == Resolving => call.again = {}

\* C20 amended: a resolved member is appended only when its id is not in stored, so a
\* node id is returned a second time only after it has left stored, which keeps the
\* MAX_PEERS ids resolved last.
C20_NoIdReturnedTwiceWhileStored == Resolving => call.again \subseteq call.evicted

\* A member resolved by two tasks of one batch was appended once, next to another one
C20_Witness ==
    /\ Resolving
    /\ call.dropped # {}
    /\ Len(call.ret) = 2
    /\ call.dropped \subseteq {call.ret[i] : i \in DOMAIN call.ret}
    /\ call.again = {}

----------------------------------------------------------------------------
(* get_affinity as a function of two 256-bit ids *)

\* The ids get_affinity is applied to: the ids of the model, the id of all ones, and
\* two ids with no zero byte
AffinityIds ==
    {data(id) : id \in 0..6}
        \cup {[i \in 1..KeyIdLen |-> 255],
              [i \in 1..KeyIdLen |-> (i * 37) % 256],
              [i \in 1..KeyIdLen |-> IF i < 17 THEN (i * 37) % 256 ELSE 3]}

\* The bits of an id are numbered from 1, the most significant bit of byte 1 first
BitNumbers == 1..(8 * KeyIdLen)
bit_byte(k) == ((k - 1) \div 8) + 1
bit_weight(k) == pow2(7 - ((k - 1) % 8))
bit(x, k) == (x[bit_byte(k)] \div bit_weight(k)) % 2
flip_bit(x, k) == [x EXCEPT ![bit_byte(k)] = xor8(x[bit_byte(k)], bit_weight(k))]

\* The number of leading zero bits of a XOR b: the bits before the first bit in which
\* a and b differ
differ_at(a, b) == {k \in BitNumbers : bit(a, k) # bit(b, k)}
leading_zero_bits(a, b) ==
    LET d == differ_at(a, b)
    IN IF d = {} THEN 8 * KeyIdLen
       ELSE (CHOOSE k \in d : \A j \in d : k <= j) - 1

\* The inputs: two ids of AffinityIds, or an id and the same id with bit k flipped
AffinityInputs ==
    {[key1 |-> x, key2 |-> y, flipped |-> 0] : x \in AffinityIds, y \in AffinityIds}
        \cup {[key1 |-> x, key2 |-> flip_bit(x, k), flipped |-> k] :
                 x \in AffinityIds, k \in BitNumbers}

InitAffinity ==
    /\ storage = [k \in DhtKeyIds |-> NoValue]
    /\ now = 0
    /\ req = Idle
    /\ buckets = <<>>
    /\ known_peers = EmptyCache
    /\ bad_peers = <<>>
    /\ hist = [p \in PeerIds |-> <<>>]
    /\ tasks = [t \in Tasks |-> IdleTask]
    /\ reporters = [r \in Reporters |-> IdleReporter]
    /\ \E in \in AffinityInputs :
          call = [op |-> "get_affinity", pc |-> "start", key1 |-> in.key1,
                  key2 |-> in.key2, flipped |-> in.flipped, ret |-> 0, back |-> 0]

\* get_affinity(key1, key2) and get_affinity(key2, key1) are evaluated
GetAffinity ==
    /\ call.op = "get_affinity"
    /\ call.pc = "start"
    /\ call' = [call EXCEPT !.pc = "done",
                            !.ret = get_affinity(call.key1, call.key2),
                            !.back = get_affinity(call.key2, call.key1)]
    /\ UNCHANGED <<storage, now, req, buckets, known_peers, bad_peers, hist, tasks, reporters>>

NextAffinity == GetAffinity

SpecAffinity == InitAffinity /\ [][NextAffinity]_vars

AffinityDone == call.op = "get_affinity" /\ call.pc = "done"

\* C24: get_affinity(x, x) is 256 for every id x; the sum of 32 times 8 in the 8-bit
\* result neither overflows nor wraps.
C24_SelfAffinityIs256 ==
    (AffinityDone /\ call.key1 = call.key2) => call.ret = 8 * KeyIdLen

\* C25: for ids a # b, get_affinity(a, b) is the number of leading zero bits of
\* a XOR b, a value in 0..255; it is symmetric, and for b equal to a but for its k-th
\* bit (1-based, most significant first) it is k - 1.
C25_AffinityIsLeadingZeroBits ==
    (AffinityDone /\ call.key1 # call.key2) =>
        /\ call.ret = leading_zero_bits(call.key1, call.key2)
        /\ call.ret \in 0..255
        /\ call.back = call.ret
        /\ call.flipped # 0 => call.ret = call.flipped - 1

\* The last bit alone differs (affinity 255), and the first differing bit is in a low nibble
C25_Witness ==
    /\ AffinityDone
    /\ call.flipped = 8 * KeyIdLen
    /\ call.ret = 255
    /\ call.key1[1] # 0

----------------------------------------------------------------------------
(* The lookup iterator on its own: one DhtIterator over a known-peer set that grows
   and whose peers are scored by other lookups between its updates *)

MaxIterPeers == 6      \* the peers that may enter the known-peer set

\* The peers that may become known. Under the nodes key their affinities to the key
\* differ (0, 7, 11, 0, 21, 24, ..); under the address key they are all 0.
IterPeers(key_id) ==
    IF key_id = hash(NodesKey)
    THEN (1..(MaxIterPeers + 1)) \ {6}
    ELSE (2..(MaxIterPeers + 3)) \ {3, 4}

\* The peers other lookups query: the failures of peer 3 bring its affinity to the
\* nodes key from 11 down to that of peer 2 and below
IterQueried == {3}

IterNode(id) == [id |-> id, addr_list |-> "a1", version |-> 1, signature |-> "good"]

\* The peers that may enter next: any peer not yet known; peers of one and the same
\* affinity to the key enter in the order of their ids
KeyAffinity ==
    [key_id \in {hash(AddressKey), hash(NodesKey)} |->
        [p \in IterPeers(key_id) |-> get_affinity(data(p), key_data(key_id))]]
Arrivals(key_id) ==
    LET left == IterPeers(key_id) \ CacheIds(known_peers)
    IN {p \in left :
           \A q \in left : KeyAffinity[key_id][q] = KeyAffinity[key_id][p] => p <= q}

InitIter ==
    /\ storage = [k \in DhtKeyIds |-> NoValue]
    /\ now = 0
    /\ req = Idle
    /\ buckets = <<>>
    /\ known_peers = with_limit(MAX_PEERS)
    /\ bad_peers = <<>>
    /\ hist = [p \in PeerIds |-> <<>>]
    /\ tasks = [t \in Tasks |-> IdleTask]
    /\ reporters = [r \in Reporters |-> IdleReporter]
    /\ \E key_id \in {hash(AddressKey), hash(NodesKey)} :
          call = [op |-> "iterate", pc |-> "new", key_id |-> key_id,
                  iter |-> NoIter, order |-> <<>>, known |-> 0, seen |-> {}]

\* add_peer(node) of a peer not yet known
IterAddPeer ==
    \E id \in Arrivals(call.key_id) :
        LET r == add_peer(IterNode(id), buckets, known_peers, bad_peers)
        IN /\ call.op = "iterate"
           /\ buckets' = r.buckets
           /\ known_peers' = r.known_peers
           /\ bad_peers' = r.bad_peers
           /\ UNCHANGED <<storage, now, req, hist, tasks, reporters, call>>

\* A query of another lookup to a known peer failed: set_query_result(None, peer)
IterPeerFailed ==
    /\ call.op = "iterate"
    /\ \E peer \in IterQueried \cap CacheIds(known_peers) :
           /\ bad_peers' = set_query_result(bad_peers, FALSE, peer)
           /\ bad_peers' # bad_peers
    /\ UNCHANGED <<storage, now, req, buckets, known_peers, hist, tasks, reporters, call>>

\* The peers the while loop of DhtIterator::update goes through, from nxt on
RECURSIVE walked_peers(_, _, _)
walked_peers(nxt, kp, bp) ==
    IF nxt.peer = NoPeer THEN {}
    ELSE {nxt.peer} \cup walked_peers(get_known_peer(kp, bp, nxt.iter), kp, bp)

\* The healthy peers an update sees, each with its effective affinity
seen_by_update(it, key_id, kp, bp) ==
    LET start == IF it.iter # NoIter
                 THEN [iter |-> it.iter, peer |-> given(kp, it.iter)]
                 ELSE get_known_peer(kp, bp, NoIter)
    IN {<<effective_affinity(p, key_id, bp), p>> :
           p \in {q \in walked_peers(start, kp, bp) : Score(bp, q) < MAX_FAIL_COUNT}}

\* DhtIterator::with_key_id(dht, key_id)
IterCreate ==
    /\ call.op = "iterate"
    /\ call.pc = "new"
    /\ \E it \in with_key_id(call.key_id, known_peers, bad_peers) :
          call' = [call EXCEPT !.pc = "updated", !.iter = it.iter, !.order = it.order,
                               !.known = count(known_peers),
                               !.seen = seen_by_update(NewIterator, call.key_id,
                                                       known_peers, bad_peers)]
    /\ UNCHANGED <<storage, now, req, buckets, known_peers, bad_peers, hist, tasks, reporters>>

\* iter.update(dht) of the iterator made before; find_value calls it when the count
\* of known peers has changed
IterUpdate ==
    /\ call.op = "iterate"
    /\ call.pc = "updated"
    /\ count(known_peers) # call.known
    /\ \E it \in update([iter |-> call.iter, order |-> call.order], call.key_id,
                        known_peers, bad_peers) :
          call' = [call EXCEPT !.iter = it.iter, !.order = it.order,
                               !.known = count(known_peers),
                               !.seen = @ \cup seen_by_update(
                                   [iter |-> call.iter, order |-> call.order],
                                   call.key_id, known_peers, bad_peers)]
    /\ UNCHANGED <<storage, now, req, buckets, known_peers, bad_peers, hist, tasks, reporters>>

NextIter ==
    \/ IterAddPeer
    \/ IterPeerFailed
    \/ IterCreate
    \/ IterUpdate

SpecIter == InitIter /\ [][NextIter]_vars

IterUpdated == call.op = "iterate" /\ call.pc = "updated"

\* C21: a peer whose score is >= MAX_FAIL_COUNT when DhtIterator::update pulls it from
\* the known-peer set is never placed in order, when the iterator is created and when
\* it resumes from its saved cursor.
C21_BadPeerNeverPlaced ==
    [][(call.op = "iterate" /\ call'.order # call.order) =>
          \A p \in OrderPeers(call'.order) \ OrderPeers(call.order) :
              Score(bad_peers, p) < MAX_FAIL_COUNT]_vars

Affinities(entries) == {e[1] : e \in entries}
OrderEntries(order) == {order[i] : i \in DOMAIN order}

\* C22: after any sequence of updates, every peer left in order has an effective
\* affinity >= that of every healthy peer the iterator has seen and not kept.
C22_KeptAtLeastAsCloseAsDropped ==
    IterUpdated =>
        \A kept \in OrderEntries(call.order) :
            \A s \in call.seen :
                s[2] \notin OrderPeers(call.order) => kept[1] >= s[1]

SortedAscending(order) ==
    \A i, j \in DOMAIN order : i < j => order[i][1] <= order[j][1]

HealthySeen == {s[2] : s \in call.seen}

\* C23: after every update, order is sorted by ascending effective affinity, holds at
\* least min(MAX_TASKS, healthy peers seen) entries, and holds at most MAX_TASKS
\* entries unless all its entries have the same (top) effective affinity.
C23_OrderSortedAndBounded ==
    IterUpdated =>
        /\ SortedAscending(call.order)
        /\ Len(call.order) >= Min({MAX_TASKS, Cardinality(HealthySeen)})
        /\ \/ Len(call.order) <= MAX_TASKS
           \/ Cardinality(Affinities(OrderEntries(call.order))) = 1

\* More healthy peers were seen than order may hold, of several affinities, and the
\* front of order was dropped down to MAX_TASKS entries
C23_Witness ==
    /\ IterUpdated
    /\ Cardinality(HealthySeen) > MAX_TASKS
    /\ Len(call.order) = MAX_TASKS
    /\ Cardinality(Affinities(OrderEntries(call.order))) = MAX_TASKS
    /\ bad_peers # <<>>

\* More than MAX_TASKS entries of one affinity are all kept
C23_TiesWitness ==
    /\ IterUpdated
    /\ Len(call.order) > MAX_TASKS

----------------------------------------------------------------------------
(* find_value on its own: one call with any policy, any limit and either value of
   `all`, on a node whose known-peer set does not evict *)

MaxLimit == 2      \* the parallelism limit of the policy: 1..MaxLimit

InitEngine ==
    /\ storage = [k \in DhtKeyIds |-> NoValue]
    /\ now = 0
    /\ req = Idle
    /\ buckets = <<>>
    /\ known_peers = with_limit(MAX_PEERS)
    /\ bad_peers = <<>>
    /\ hist = [p \in PeerIds |-> <<>>]
    /\ tasks = [t \in Tasks |-> IdleTask]
    /\ reporters = [r \in Reporters |-> IdleReporter]
    /\ call = NoCall

\* add_peer(node) for an inbound query bundle, before the call
AddPeerBeforeCall == call.op = "none" /\ AddFreshPeer

\* The peers a fill step spawned a query for
spawned_peers(c, filled) == {p \in PeerIds : filled.flying[p] > c.flying[p]}

\* The fill step of find_value, from.order being what it pops from; fill and from
\* keep the peers it spawned a query for and the order it found
fill_window(c) ==
    LET filled == spawn_queries(c)
    IN [filled EXCEPT !.fill = spawned_peers(c, filled), !.from = c.order]

\* find_value(dht, key_id, check, policy, all, &mut None) for the address key, up to
\* its first wait
StartFindValue ==
    LET key_id == hash(dht_key_from_key_id(Ed1.id, "address"))
    IN /\ req = Idle
       /\ call.op = "none"
       /\ \E limit \in 1..MaxLimit, all \in BOOLEAN, full \in BOOLEAN :
              \E it \in with_key_id(key_id, known_peers, bad_peers) :
                  LET new == [NewCall("find_value", key_id, NoValue)
                                 EXCEPT !.limit = limit, !.all = all, !.full = full]
                      c == find_value_begin(new, it, known_peers)
                                 @@ [fill |-> {}, from |-> <<>>]
                  IN call' = [fill_window(c) EXCEPT !.pc = "wait"]
       /\ UNCHANGED <<storage, now, req, buckets, known_peers, bad_peers, hist, tasks,
                      reporters>>

\* Ok(ret)
find_value_return(c) == [c EXCEPT !.pc = "done", !.result = [kind |-> "values"]]

\* What the call may be when wait.wait has returned and find_value has gone on to its
\* next wait or to its return
find_value_harvests(c, kp, bp) ==
    {IF ~leaves_wait_loop(d) THEN d
     ELSE IF stops(d) THEN find_value_return(d)
     ELSE fill_window(d) : d \in reseed(after_wait(c), kp, bp)}

\* find_value: wait.wait returns; up to the next wait or to the return
HarvestFindValue ==
    /\ req = Idle
    /\ call.op = "find_value"
    /\ call.pc = "wait"
    /\ wait_ready(call)
    /\ \E c \in find_value_harvests(call, known_peers, bad_peers) : call' = c
    /\ UNCHANGED <<storage, now, req, buckets, known_peers, bad_peers, hist, tasks,
                   reporters>>

NextEngine ==
    \/ AddPeerBeforeCall
    \/ FailedBefore
    \/ AddPeerWhileDrained
    \/ StartFindValue
    \/ HarvestFindValue
    \/ QueryError
    \/ QueryTimeout
    \/ ValueFound
    \/ ValueNotFound
    \/ Reply

SpecEngine == InitEngine /\ [][NextEngine]_vars

InFindValue == call.op = "find_value"
FindValueReturned == call.op = "find_value" /\ call.pc = "done"

\* The affinity order holds for peer p
OrderAffinities(order, p) == {order[i][1] : i \in {j \in DOMAIN order : order[j][2] = p}}

\* C26: within one find_value with limit L >= 1 the queries spawned and not yet
\* harvested never exceed L, under both policies and both values of all, and each fill
\* step takes the peers of the highest effective affinity left in order.
C26_WindowWithinLimit ==
    InFindValue =>
        /\ call.reqs <= call.limit
        /\ \A p \in call.fill :
               /\ OrderAffinities(call.from, p) # {}
               /\ \A e \in OrderEntries(call.order) \cap OrderEntries(call.from) :
                      \E a \in OrderAffinities(call.from, p) : a >= e[1]

\* The window is full at limit 2 with a peer of lower affinity left in order
C26_Witness ==
    /\ InFindValue
    /\ call.limit = 2
    /\ call.reqs = 2
    /\ Cardinality(call.fill) = 2
    /\ call.order # <<>>
    /\ \E p \in call.fill : \E a \in OrderAffinities(call.from, p) :
           a > call.order[1][1]

StopCondition(c) == (c.all /\ Len(c.ret) >= c.limit) \/ (~c.all /\ c.ret # <<>>)
DrainedAndEmpty(c) == c.reqs = 0 /\ c.order = <<>>

\* C27: a FullSearch find_value returns only when (all and results >= L), or (not all
\* and results >= 1), or the window has drained and the frontier is empty; it never
\* returns an empty result while order holds an unqueried peer or a spawned query is
\* unharvested, also when other activity adds peers meanwhile.
C27_FullSearchReturnsOnlyWhenDone ==
    (FindValueReturned /\ call.full) =>
        /\ StopCondition(call) \/ DrainedAndEmpty(call)
        /\ call.ret = <<>> => DrainedAndEmpty(call)

\* C28: a FastSearch find_value returns on a completion that satisfies the stopping
\* condition, and does not return on one that does not satisfy it (a failed query, a
\* ValueNotFound) while unqueried peers remain in order or queries are in flight.
C28_FastSearchReturnsOnlyOnHit ==
    (FindValueReturned /\ ~call.full) =>
        StopCondition(call) \/ DrainedAndEmpty(call)

----------------------------------------------------------------------------
(* store_value over a known-peer set larger than MAX_TASKS *)

MaxSweepPeers == 6     \* the peers known when the publish starts: up to MaxSweepPeers

\* The peers that may be known; id 4 is left out, its bytes are those of the address key
SweepPeerIds == (1..(MaxSweepPeers + 1)) \ {4}

\* add_peer(node) before the publish; the peers enter in the order of their ids
SweepAddPeer ==
    LET left == SweepPeerIds \ CacheIds(known_peers)
        r == add_peer(IterNode(Min(left)), buckets, known_peers, bad_peers)
    IN /\ call.op = "none"
       /\ left # {}
       /\ buckets' = r.buckets
       /\ known_peers' = r.known_peers
       /\ bad_peers' = r.bad_peers
       /\ UNCHANGED <<storage, now, req, hist, tasks, reporters, call>>

\* One STORE task of store_value runs to its end, answered
SweepStoreAnswered ==
    \E peer \in SweepPeerIds :
        /\ Running /\ call.pc = "store" /\ call.flying[peer] > 0
        /\ bad_peers' = set_query_result(bad_peers, TRUE, peer)
        /\ call' = [call EXCEPT !.flying[peer] = @ - 1]
        /\ UNCHANGED <<storage, now, req, buckets, known_peers, hist, tasks, reporters>>

\* One value_query task of the readback runs to its end: the query returns an error
SweepQueryError ==
    \E peer \in SweepPeerIds :
        /\ call.op # "none" /\ call.pc \in {"wait", "done"} /\ call.flying[peer] > 0
        /\ Responded(peer, NoValue)
        /\ UNCHANGED <<storage, now, req, buckets, known_peers, bad_peers, hist, tasks,
                       reporters>>

\* One value_query task of the readback runs to its end: the peer answers ValueFound
\* with the value it was sent
SweepValueFound ==
    \E peer \in SweepPeerIds :
        /\ call.op # "none" /\ call.pc \in {"wait", "done"} /\ call.flying[peer] > 0
        /\ bad_peers' = set_query_result(bad_peers, TRUE, peer)
        /\ Responded(peer, call.value)
        /\ UNCHANGED <<storage, now, req, buckets, known_peers, hist, tasks, reporters>>

NextSweep ==
    \/ SweepAddPeer
    \/ StartStoreIpAddress
    \/ SweepStoreAnswered
    \/ ReadBack
    \/ Harvest
    \/ SweepQueryError
    \/ SweepValueFound

SpecSweep == InitEngine /\ [][NextSweep]_vars

\* The peers whose STORE has been sent and has not completed
OutstandingStores == {p \in DOMAIN call.flying : call.flying[p] > 0}

\* C29: during one publish the STORE RPCs outstanding at the same time never exceed
\* MAX_TASKS, however many healthy peers are known.
C29_StoresWithinMaxTasks ==
    (call.op = "store_ip_address" /\ call.pc = "store") =>
        Cardinality(OutstandingStores) <= MAX_TASKS

----------------------------------------------------------------------------
(* find_overlay_nodes_with_context under either search policy *)

\* The policies a caller may give
SearchPolicies == {FullSearch(1), FullSearch(MAX_TASKS), FastSearch(MAX_TASKS)}

\* find_overlay_nodes_with_context is called with any of the policies
StartResolveAny == StartResolveWith(SearchPolicies)

NextPolicy ==
    \/ StartResolveAny
    \/ RostersFound
    \/ MemberResolved
    \/ HarvestResolved

SpecPolicy == Init /\ [][NextPolicy]_vars

Elems(s) == {s[i] : i \in DOMAIN s}

\* Every member the call had in hand is resolved (it is in stored, or was until the
\* cache dropped it) or is in the search queue of the context
NoMemberLost ==
    (Resolving /\ call.pc = "done" /\ call.full) =>
        call.pending \subseteq
            (CacheIds(call.stored) \cup call.evicted \cup Elems(call.search))

\* wait.wait hands over the result of a resolve task that found no address
HarvestsUnresolved ==
    /\ Resolving
    /\ call.pc = "wait"
    /\ call.reqs > 0
    /\ call.queue # <<>>
    /\ ~Head(call.queue).resolved
    /\ call'.queue = Tail(call.queue)

\* Under FullSearch the member goes to postponed, under FastSearch it goes nowhere
UnresolvedKeptOrDropped ==
    HarvestsUnresolved =>
        /\ call'.search = call.search
        /\ call'.stored = call.stored
        /\ call'.postponed = IF call.full
                             THEN Append(call.postponed, Head(call.queue).id)
                             ELSE call.postponed

C31_StopsOnlyWhenExhausted ==
    (Resolving /\ call.pc = "done") =>
        \/ call.iter_none /\ call.ret # <<>>
        \/ call.iter_none
        \/ call.search = <<>>

----------------------------------------------------------------------------
(* Termination: find_value, store_value and find_overlay_nodes_with_context, each
   followed to its return. Every spawned query completes, and the peers that may
   arrive are those of FreshNodes, so the known-peer set stops growing. *)

LookupOps == {"find_value", "store_ip_address"}

\* One value_query task of find_value runs to its end
QueryCompletes ==
    /\ call.op \in LookupOps
    /\ QueryError \/ QueryTimeout \/ ValueFound \/ ValueNotFound

\* One STORE task of store_value runs to its end
StoreCompletes == StoreAnswered \/ StoreTimeout

\* add_peer(node) for an inbound query bundle while a lookup has no query in flight:
\* the known-peer set grows
PeerArrives ==
    /\ call.op \in LookupOps
    /\ AddPeerWhileDrained
    /\ count(known_peers') > count(known_peers)

\* wait.wait returns in the readback find_value of store_value
HarvestReadBack == call.op = "store_ip_address" /\ Harvest

\* find_overlay_nodes_with_context is called; what its finds return does not depend on
\* the known peers, it is followed on a node that knows none
StartResolveAlone == count(known_peers) = 0 /\ bad_peers = <<>> /\ StartResolveAny

NextReturn ==
    \/ AddPeerBeforeCall
    \/ FailedBefore
    \/ PeerArrives
    \/ StartFindValue
    \/ HarvestFindValue
    \/ StartStoreIpAddress
    \/ StoreCompletes
    \/ ReadBack
    \/ HarvestReadBack
    \/ QueryCompletes
    \/ StartResolveAlone
    \/ RostersFound
    \/ MemberResolved
    \/ HarvestResolved
    \/ Reply

\* The steps of the call and of the tasks it spawned
CallStep ==
    \/ QueryCompletes
    \/ StoreCompletes
    \/ MemberResolved
    \/ HarvestFindValue
    \/ ReadBack
    \/ HarvestReadBack
    \/ RostersFound
    \/ HarvestResolved
    \/ Reply

\* ENABLED <<CallStep>>_vars, written out from the guards of the steps: a response is
\* owed, a spawned task has not completed, or the call can go on from where it waits
\* and is not left as it was
SomeFlying(ids) == \E id \in ids : call.flying[id] > 0
CanStep ==
    \/ req # Idle
    \/ /\ req = Idle
       /\ call.op \in LookupOps
       /\ \/ call.pc \in {"wait", "done"} /\ SomeFlying(PeerIds)
          \/ call.pc = "store" /\ (SomeFlying(PeerIds) \/ call.flying = NoFlying)
          \/ /\ call.pc = "wait"
             /\ wait_ready(call)
             /\ IF call.op = "find_value"
                THEN find_value_harvests(call, known_peers, bad_peers) # {call}
                ELSE harvests(call, known_peers, bad_peers) # {call}
    \/ /\ req = Idle
       /\ call.op = "find_overlay_nodes"
       /\ \/ call.pc = "find_value"
          \/ call.pc = "wait" /\ SomeFlying(MemberIds)
          \/ call.pc = "wait" /\ wait_ready(call) /\ resolve_wait(call) # call

\* A task that can run does run: the spawned queries complete, and the call goes on
\* whenever its wait can return. This is WF_vars(CallStep).
FairReturn == []<>(~CanStep) \/ []<><<CallStep>>_vars

SpecReturn == InitEngine /\ [][NextReturn]_vars /\ FairReturn

\* C32: if every spawned query completes and the known-peer set stops growing, every
\* find_value, store_value and find_overlay_nodes_with_context invocation returns.
C32_EveryCallReturns == [](Running => <>(call.pc = "done"))

\* store_value has returned false after a second round of STOREs, for a peer that
\* arrived during the readback of the first
C32_Witness ==
    /\ call.op = "store_ip_address"
    /\ call.pc = "done"
    /\ call.result.kind = "false"
    /\ call.unswept > 0
    /\ call.swept > call.unswept

----------------------------------------------------------------------------
(* Who may write an owner's Signature-rule entry *)

\* A second Ed25519 key pair; its holder does not hold the private key of Ed1
Ed3 == [kind |-> "Ed25519", id |-> 3]

\* Signature-rule STOREs under the address key of Ed1: the key description carries the
\* public key of Ed1 or that of Ed3, and each signature verifies under that key or not
OwnerValues ==
    {DhtValue("Signature", id, AddressKey, ksig, sig, ttl, AddressList(a)) :
        id \in {Ed1, Ed3}, ksig \in {"good", "bad"}, sig \in {"good", "bad"},
        ttl \in 1..MaxTtl, a \in Addresses}

\* An inbound STORE of one of these values
StoreOwned == StoreWith(OwnerValues)

NextOwner ==
    \/ StoreOwned
    \/ StoreIpAddress
    \/ FetchAddress
    \/ Tick
    \/ Reply

SpecOwner == Init /\ [][NextOwner]_vars

\* The owner of the DHT key a key id is the hash of
key_owner(key_id) == key_id[1]

\* C33: every Signature-rule entry held under the key-hash of DHTKey{owner = O, ..} has
\* a key-description public key whose id is O; so fetch_address(key_id) never returns a
\* public key whose id differs from key_id, and a party without O's private key cannot
\* replace O's entry.
C33_EntryKeyIsOwner ==
    /\ \A k \in DOMAIN storage :
           (storage[k] # NoValue /\ storage[k].rule = "Signature") =>
               storage[k].id.id = key_owner(k)
    /\ (req.op = "FetchAddress" /\ req.found # NoValue) =>
           parse_value_as_address(req.found).key.id = key_owner(req.key)

----------------------------------------------------------------------------
(* What lowers a score *)

\* add_peer has just run
AddPeerStep == req = Idle /\ req'.op = "AddPeer"

\* C34: a peer's failure score is lowered only when a query sent to it was answered:
\* add_peer for a node id that is already known leaves the score of that id as it was,
\* so an excluded peer is not admitted again without answering a query.
C34_AddPeerKeepsScore ==
    [][AddPeerStep =>
          \A peer \in PeerIds : Score(bad_peers', peer) = Score(bad_peers, peer)]_vars

----------------------------------------------------------------------------
(* The way to exclusion, one report at a time *)

\* The first n queries to the peer since it had no score have all failed
FailedTimes(peer, n) == hist[peer] = SubSeq(Pattern, 1, n)

Excluded(peer) == Score(bad_peers, peer) >= MAX_FAIL_COUNT

\* Score 2, then 4 (not excluded, get_known_peer yields the peer), then 6 (excluded)
ExcludedAtThirdFailure ==
    \A peer \in PeerIds :
        /\ hist[peer] = <<>> => peer \notin DOMAIN bad_peers
        /\ FailedTimes(peer, 1) => Score(bad_peers, peer) = 2 /\ ~Excluded(peer)
        /\ FailedTimes(peer, 2) => Score(bad_peers, peer) = 4 /\ ~Excluded(peer)
        /\ FailedTimes(peer, 3) => Score(bad_peers, peer) = 6 /\ Excluded(peer)
        /\ peer \in CacheIds(known_peers) => (Yielded(peer) <=> ~Excluded(peer))

\* An entry stays, and its score does not go below the lesser of what it was and
\* MAX_FAIL_COUNT - 1
ScoreKept ==
    \A peer \in DOMAIN bad_peers :
        /\ peer \in DOMAIN bad_peers'
        /\ bad_peers'[peer] >= Min({bad_peers[peer], MAX_FAIL_COUNT - 1})

\* C35: from no score entry, with failures reported one at a time, the peer becomes
\* excluded (score >= MAX_FAIL_COUNT, skipped by get_known_peer) exactly at its third
\* failed query (score 2, 4, 6); a score entry is never removed and never goes below
\* min(its value, MAX_FAIL_COUNT - 1).
C35_ExcludedAtThirdFailure == []ExcludedAtThirdFailure /\ [][ScoreKept]_vars

\* A known peer has failed three times and is skipped, and another score has come
\* down from above the cap to MAX_FAIL_COUNT - 1
C35_Witness ==
    \E peer \in CacheIds(known_peers), other \in PeerIds :
        /\ FailedTimes(peer, 3)
        /\ ~Yielded(peer)
        /\ hist[other] = Pattern
        /\ Score(bad_peers, other) = MAX_FAIL_COUNT - 1

----------------------------------------------------------------------------
(* The ttl of a stored entry *)

\* Inbound STOREs and local publishes of both update rules, and the clock
NextTtl ==
    \/ StoreOwned
    \/ StoreRoster
    \/ StoreIpAddress
    \/ StoreOverlayNode
    \/ Tick
    \/ Reply

SpecTtl == Init /\ [][NextTtl]_vars

\* An entry stays an entry and its ttl does not go down
TtlKept ==
    \A key \in DhtKeyIds :
        storage[key] # NoValue =>
            /\ storage'[key] # NoValue
            /\ storage'[key].ttl >= storage[key].ttl

----------------------------------------------------------------------------
(* One iterator over several find_value calls *)

MaxCalls == 2      \* find_value calls on one iterator

\* add_peer(node) for an inbound query bundle after find_value has returned
AddPeerAfterReturn == call.op = "find_value" /\ call.pc = "done" /\ AddFreshPeer

\* find_value(dht, key_id, check, policy, all, iter_opt) with the iterator the call
\* before has left in iter_opt (its order was not empty), once the queries of that call
\* have completed, up to its first wait. sent goes on: it holds every peer the iterator
\* has yielded.
FindValueAgain ==
    /\ req = Idle
    /\ call.op = "find_value"
    /\ call.pc = "done"
    /\ call.order # <<>>
    /\ call.flying = NoFlying
    /\ call.n < MaxCalls
    /\ LET c == [call EXCEPT !.n = @ + 1, !.reqs = 0, !.queue = <<>>, !.ret = <<>>,
                             !.known = count(known_peers), !.finished = ~call.full,
                             !.placed = OrderPeers(call.order), !.late = {},
                             !.accepted = {}, !.result = NoResult]
       IN call' = [fill_window(c) EXCEPT !.pc = "wait"]
    /\ UNCHANGED <<storage, now, req, buckets, known_peers, bad_peers, hist, tasks,
                   reporters>>

NextYield ==
    \/ AddPeerBeforeCall
    \/ AddPeerWhileDrained
    \/ AddPeerAfterReturn
    \/ StartFindValue
    \/ FindValueAgain
    \/ HarvestFindValue
    \/ QueryTimeout
    \/ ValueFound
    \/ ValueNotFound
    \/ Reply

SpecYield == InitEngine /\ [][NextYield]_vars

\* The FIND_VALUE queries a step sends to peer
SentInStep(peer) ==
    IF call'.flying[peer] > call.flying[peer]
    THEN call'.flying[peer] - call.flying[peer]
    ELSE 0

\* The cache has not been full, so put has replaced no peer
NothingEvicted == count(known_peers) < known_peers.limit

YieldedOnce ==
    (NothingEvicted /\ call'.op = "find_value") =>
        \A peer \in PeerIds :
            /\ SentInStep(peer) <= 1
            /\ (SentInStep(peer) = 1 /\ call.op = "find_value") => peer \notin call.sent

\* C37: while no peer is evicted from the known-peer set, one DhtIterator never yields
\* the same peer twice: over its lifetime, across find_value calls and update calls on
\* it, each peer is sent at most one FIND_VALUE for the key.
C37_EachPeerAskedOnce == [][YieldedOnce]_vars

\* The iterator is in its second find_value (fast search: one fill a call), an update
\* of that call has placed peers, and peers have been sent their query in both calls
C37_Witness ==
    /\ call.op = "find_value"
    /\ call.n = 2
    /\ ~call.full
    /\ call.late # {}
    /\ call.fill # {}
    /\ call.sent \ call.fill # {}

----------------------------------------------------------------------------
(* The buckets after add_peer *)

\* The ids that have a record in some bucket
RecordIds(bk) == UNION {DOMAIN bk[a] : a \in DOMAIN bk}

\* Every record sits under its own id in the bucket of its affinity to the local id,
\* and no id has records in two buckets
RecordsPlaced ==
    /\ \A a \in DOMAIN buckets : \A id \in DOMAIN buckets[a] :
          /\ buckets[a][id].id = id
          /\ a = get_affinity(data(LocalId), data(id))
    /\ \A a, b \in DOMAIN buckets : a # b => DOMAIN buckets[a] \cap DOMAIN buckets[b] = {}

\* known_peers.put replaces a peer: the cache is full and takes a new id
EvictStep ==
    /\ count(known_peers) = known_peers.limit
    /\ CacheIds(known_peers') # CacheIds(known_peers)

\* No record leaves its bucket; as long as no put has replaced a peer, the ids with a
\* record are the ids of the known-peer set
RecordsKept ==
    /\ \A a \in DOMAIN buckets : \A id \in DOMAIN buckets[a] :
          a \in DOMAIN buckets' /\ id \in DOMAIN buckets'[a]
    /\ (RecordIds(buckets) = CacheIds(known_peers) /\ ~EvictStep)
          => RecordIds(buckets') = CacheIds(known_peers')

\* C38: after any sequence of add_peer calls every node record sits in the bucket whose
\* index is affinity(local id, record id), no id has records in two buckets, the ids
\* with a bucket record are exactly the ids of the known-peer set while nothing has been
\* evicted from it, and no record is ever removed from a bucket.
C38_BucketsHoldKnownPeers == []RecordsPlaced /\ [][RecordsKept]_vars

\* add_peer has filled the known-peer set without replacing a peer: two records in two
\* buckets, the ids of the set
C38_Witness ==
    /\ req.op = "AddPeer"
    /\ req.ret # NoPeer
    /\ count(known_peers) = known_peers.limit
    /\ RecordIds(buckets) = CacheIds(known_peers)
    /\ Cardinality(DOMAIN buckets) = 2

====
